---- MODULE Spec2Model ----
(***************************************************************************)
(* Trajectory recorder of LKH-AMZ (SRC/Trajectory.c, SRC/Trajectory.h).    *)
(* The global TrajectoryData instance, its eight malloc'ed buffers and the *)
(* TD_* operations, one action per call (specification Spec), and one      *)
(* trial of the Lin-Kernighan move search with its decision recording      *)
(* (SRC/LinKernighan.c), one action per stretch of LinKernighan()          *)
(* (specification SpecLK).                                                 *)
(***************************************************************************)
EXTENDS Integers, Sequences, FiniteSets, TLC

\* ------------------------------------------------------------------ bounds
MaxDim == 2         \* largest problem_dimension passed to TD_Initialize
MaxSteps == 2       \* largest max_steps passed to TD_Initialize
MaxCand == 2        \* largest max_candidates_per_step passed to TD_Initialize
HeapBlocks == 16    \* blocks the allocator can hand out before malloc returns NULL
MaxNodes == 4       \* nodes of the problem instance the trial loop runs on

NULL == 0

\* The eight buffers, in the order TD_Initialize allocates them.
BufOrder ==
    << "TourSnapshots", "CurrentNodeAtStep", "CandidateNodeIds", "CandidateCosts",
       "ActualNumCandidatesAtStep", "TourCostAtStep", "ChosenNodeAtStep",
       "ChosenNodeGainAtStep" >>

BufNames == { BufOrder[i] : i \in 1..Len(BufOrder) }

\* What freshly malloc'ed memory may hold: indeterminate, all zero or all one.
Junk == {0, 1}

VARIABLES
    Trajectory,   \* the scalar fields and the buffer pointers of the global instance
    Mem,          \* contents of the buffers the pointers refer to (<<>> when NULL)
    live,         \* heap blocks allocated and not yet freed
    fault,        \* "none", or how the process died
    last,         \* the last call and its return value
    hist,         \* per allocation: which step indices had a state half recorded
    LK,           \* the solver globals, the node fields and the locals of LinKernighan()
    Shadow,       \* the same trial on the same inputs run with recording disabled
    Queue,        \* the active-node queue as the abstract FIFO it stands for
    Mark,         \* the trial as it was when it began and when the current t2 branch
                  \* began, the branches evaluated so far, the buffer size at the last pop
    Run           \* the run controller: the trial loop, its clock and what it keeps between trials

lkvars == << LK, Shadow, Queue, Mark, Run >>
vars == << Trajectory, Mem, live, fault, last, hist, LK, Shadow, Queue, Mark, Run >>

\* No trial is set up: the recorder is driven directly.
NoTrial == [ pc |-> "off" ]
NoMark == [ at |-> "none" ]
NoRun == [ pc |-> "off" ]

\* ------------------------------------------------------------------ memory
\* C arrays are 0-based; a buffer is a sequence and element i is at i + 1.
At(buf, i) == buf[i + 1]

Fill(n, v) == [ i \in 1..n |-> v ]

\* memcpy(&buf[off], src, n * sizeof *src)
Memcpy(buf, off, src, n) ==
    [ i \in 1..Len(buf) |-> IF i - 1 >= off /\ i - 1 < off + n THEN src[i - off] ELSE buf[i] ]

\* buf[idx] = v
Store(buf, idx, v) == [ buf EXCEPT ![idx + 1] = v ]

\* malloc: the lowest free block, or NULL when the request fails.
Malloc(lv, fails) ==
    IF fails \/ (1..HeapBlocks) \ lv = {}
    THEN NULL
    ELSE CHOOSE b \in (1..HeapBlocks) \ lv : \A c \in (1..HeapBlocks) \ lv : b <= c

\* The eight malloc calls of TD_Initialize in source order; failSet names the
\* requests the allocator refuses. Result: the pointers and the heap afterwards.
RECURSIVE MallocAll(_, _, _, _)
MallocAll(i, ptrs, lv, failSet) ==
    IF i > Len(BufOrder)
    THEN [ptrs |-> ptrs, live |-> lv]
    ELSE LET p == Malloc(lv, BufOrder[i] \in failSet)
         IN  MallocAll(i + 1, [ptrs EXCEPT ![BufOrder[i]] = p],
                       IF p = NULL THEN lv ELSE lv \cup {p}, failSet)

Pointers(td) == { td[b] : b \in BufNames } \ {NULL}

ZeroTrajectory ==
    [ TourSnapshots |-> NULL, CurrentNodeAtStep |-> NULL, CandidateNodeIds |-> NULL,
      CandidateCosts |-> NULL, ActualNumCandidatesAtStep |-> NULL,
      TourCostAtStep |-> NULL, ChosenNodeAtStep |-> NULL,
      ChosenNodeGainAtStep |-> NULL,
      TrajectorySize |-> 0, MaxTrajectorySize |-> 0, Dimension |-> 0,
      MaxCandidatesPerStep |-> 0, RecordingEnabled |-> 0 ]

EmptyMem == [ b \in BufNames |-> << >> ]

EmptyHist == [ stateAt |-> {}, actionAt |-> {}, orphan |-> FALSE ]

CleanupKeepingPointers(td, lv) ==
    [ td    |-> [ f \in DOMAIN td |-> IF f \in BufNames THEN td[f] ELSE 0 ],
      live  |-> lv \ Pointers(td),
      freed |-> Cardinality(Pointers(td) \cap lv),
      fault |-> IF Pointers(td) \subseteq lv THEN "none" ELSE "double_free" ]

\* TD_Cleanup's effect on the instance and the heap: free() of every pointer
\* (free(NULL) does nothing; freeing a block that is not live is a double free),
\* then every pointer NULL and every scalar 0.
CleanupOf(td, lv) ==
    [ td    |-> ZeroTrajectory,
      live  |-> lv \ Pointers(td),
      freed |-> Cardinality(Pointers(td) \cap lv),
      fault |-> IF Pointers(td) \subseteq lv THEN "none" ELSE "double_free" ]

\* ------------------------------------------------------------------ inputs
\* What callers pass. RecordDecision (LinKernighan.c:64-79) passes the origin
\* node, the tour read from it, the running cost, a prefix of the origin's
\* candidate list and the chosen neighbour with its gain; the arrays are never
\* NULL and the count is never negative.
TourFrom(o, d) == [ i \in 1..d |-> ((o + i - 2) % d) + 1 ]
TourCostOf(o) == 10 * o
CandId(o, k) == ((o + k - 1) % MaxDim) + 1
CandCost(o, k) == 10 * k + o
CandIds(o, n) == [ k \in 1..n |-> CandId(o, k) ]
CandCosts(o, n) == [ k \in 1..n |-> CandCost(o, k) ]
GainOf(c) == c + 2

\* <<origin, num_lkh_candidates>>: no candidate, one candidate, more than fit.
StateInputs == { <<1, 0>>, <<MaxDim, 1>>, <<1, MaxCand + 1>> }
Chosen == {1, MaxDim}
\* Arguments <<problem_dimension, max_steps, max_candidates_per_step>> of
\* TD_Initialize: small and large widths with every capacity, and calls with one
\* or all arguments zero or negative.
Widths == { <<1, 1>>, <<MaxDim, MaxCand>> }
GoodArgs == { <<w[1], s, w[2]>> : w \in Widths, s \in 1..MaxSteps }
BadArgs ==
    { <<0, MaxSteps, MaxCand>>, <<MaxDim, 0, MaxCand>>, <<MaxDim, MaxSteps, 0>>,
      <<-1, MaxSteps, MaxCand>>, <<MaxDim, -1, MaxCand>>, <<MaxDim, MaxSteps, -1>>,
      <<0, 0, 0>> }
InitArgs == GoodArgs \cup BadArgs

\* The record of a call: its name, return value (0 for void), the number of
\* blocks it freed, the path it took, and whether it is a TD_Cleanup that
\* directly follows a TD_Cleanup.
Call(op, ret, freed, path) ==
    [ op |-> op, ret |-> ret, freed |-> freed, path |-> path,
      again |-> (op = "TD_Cleanup" /\ last.op = "TD_Cleanup") ]

Init ==
    /\ Trajectory = ZeroTrajectory      \* static storage: zero-initialised
    /\ Mem = EmptyMem
    /\ live = {}
    /\ fault = "none"
    /\ last = [ op |-> "start", ret |-> 0, freed |-> 0, path |-> "", again |-> FALSE ]
    /\ hist = EmptyHist
    /\ LK = NoTrial
    /\ Shadow = NoTrial
    /\ Queue = << >>
    /\ Mark = NoMark
    /\ Run = NoRun

\* ------------------------------------------------------------------ TD_Initialize
InvalidParametersAllowingZero(problem_dimension, max_steps, max_candidates_per_step) ==
    problem_dimension < 0 \/ max_steps < 0 \/ max_candidates_per_step < 0

\* Line 12 (td is never NULL: every caller passes &Trajectory).
InvalidParameters(problem_dimension, max_steps, max_candidates_per_step) ==
    problem_dimension <= 0 \/ max_steps <= 0 \/ max_candidates_per_step <= 0

\* Lines 18-22: the scalars, before any allocation.
InitScalarsKeepingEnabled(td, problem_dimension, max_steps, max_candidates_per_step) ==
    [ td EXCEPT !.TrajectorySize = 0,
                !.Dimension = problem_dimension,
                !.MaxTrajectorySize = max_steps,
                !.MaxCandidatesPerStep = max_candidates_per_step ]

InitScalars(td, problem_dimension, max_steps, max_candidates_per_step) ==
    [ td EXCEPT !.TrajectorySize = 0,
                !.Dimension = problem_dimension,
                !.MaxTrajectorySize = max_steps,
                !.MaxCandidatesPerStep = max_candidates_per_step,
                !.RecordingEnabled = 0 ]

\* Lines 26-40: the pointers are overwritten with what malloc returns.
WithPointers(td, ptrs) == [ f \in DOMAIN td |-> IF f \in BufNames THEN ptrs[f] ELSE td[f] ]

AllocationFailed(td) == \E b \in BufNames : td[b] = NULL

\* Fresh buffers hold the indeterminate word j; line 52 zeroes CandidateNodeIds only.
FreshMem(problem_dimension, max_steps, max_candidates_per_step, j) ==
    [ TourSnapshots |-> Fill(max_steps * problem_dimension, j),
      CurrentNodeAtStep |-> Fill(max_steps, j),
      CandidateNodeIds |-> Fill(max_steps * max_candidates_per_step, 0),
      CandidateCosts |-> Fill(max_steps * max_candidates_per_step, j),
      ActualNumCandidatesAtStep |-> Fill(max_steps, j),
      TourCostAtStep |-> Fill(max_steps, j),
      ChosenNodeAtStep |-> Fill(max_steps, j),
      ChosenNodeGainAtStep |-> Fill(max_steps, j) ]

ReturnWithoutCleanup(td, lv) == [ td |-> td, live |-> lv, freed |-> 0, fault |-> "none" ]

\* Lines 46-48: TD_Cleanup(td) frees whatever was allocated, then return -1.
OnAllocationFailure(td, lv) == CleanupOf(td, lv)

TD_Initialize(problem_dimension, max_steps, max_candidates_per_step, failSet, j) ==
    /\ fault = "none"
    /\ UNCHANGED lkvars
    /\ IF InvalidParameters(problem_dimension, max_steps, max_candidates_per_step)
       THEN /\ last' = Call("TD_Initialize", -1, 0, "invalid")
            /\ UNCHANGED << Trajectory, Mem, live, fault, hist >>
       ELSE LET m  == MallocAll(1, [ b \in BufNames |-> NULL ], live, failSet)
                td == WithPointers(InitScalars(Trajectory, problem_dimension, max_steps,
                                               max_candidates_per_step), m.ptrs)
            IN  IF AllocationFailed(td)
                THEN LET c == OnAllocationFailure(td, m.live)
                     IN  /\ Trajectory' = c.td
                         /\ Mem' = EmptyMem
                         /\ live' = c.live
                         /\ fault' = c.fault
                         /\ last' = Call("TD_Initialize", -1, c.freed, "nomem")
                         /\ hist' = EmptyHist
                ELSE /\ Trajectory' = td
                     /\ Mem' = FreshMem(problem_dimension, max_steps,
                                        max_candidates_per_step, j)
                     /\ live' = m.live
                     /\ last' = Call("TD_Initialize", 0, 0, "ok")
                     /\ hist' = EmptyHist
                     /\ UNCHANGED fault

\* ------------------------------------------------------------------ TD_Cleanup
TD_Cleanup ==
    /\ fault = "none"
    /\ UNCHANGED lkvars
    /\ LET c == CleanupOf(Trajectory, live)
       IN  /\ Trajectory' = c.td
           /\ Mem' = EmptyMem
           /\ live' = c.live
           /\ fault' = c.fault
           /\ last' = Call("TD_Cleanup", 0, c.freed, "")
           /\ hist' = EmptyHist

\* ------------------------------------------------------------------ enable / disable
NeverRefused(td) == FALSE

\* Line 159.
NotProperlyInitialized(td) == td.Dimension = 0 \/ td.MaxTrajectorySize = 0

EnableOfResettingSize(td) ==
    IF NotProperlyInitialized(td)
    THEN [ td EXCEPT !.RecordingEnabled = 0 ]
    ELSE [ td EXCEPT !.RecordingEnabled = 1, !.TrajectorySize = 0 ]

EnableOf(td) ==
    IF NotProperlyInitialized(td)
    THEN [ td EXCEPT !.RecordingEnabled = 0 ]
    ELSE [ td EXCEPT !.RecordingEnabled = 1 ]

TD_EnableRecording ==
    /\ fault = "none"
    /\ UNCHANGED lkvars
    /\ Trajectory' = EnableOf(Trajectory)
    /\ last' = Call("TD_EnableRecording", 0, 0, "")
    /\ UNCHANGED << Mem, live, fault, hist >>

DisableOf(td) == [ td EXCEPT !.RecordingEnabled = 0 ]

TD_DisableRecording ==
    /\ fault = "none"
    /\ UNCHANGED lkvars
    /\ Trajectory' = DisableOf(Trajectory)
    /\ last' = Call("TD_DisableRecording", 0, 0, "")
    /\ UNCHANGED << Mem, live, fault, hist >>

\* ------------------------------------------------------------------ TD_RecordState
\* Lines 66 and 115: not recording, or buffer full (td is never NULL: every
\* caller passes &Trajectory).
SkipsOffByOne(td) == td.RecordingEnabled = 0 \/ td.TrajectorySize > td.MaxTrajectorySize

SkipsIgnoringEnabled(td) == td.TrajectorySize >= td.MaxTrajectorySize

Skips(td) == td.RecordingEnabled = 0 \/ td.TrajectorySize >= td.MaxTrajectorySize

CandidatesToCopyUntruncated(num_lkh_candidates, td) == num_lkh_candidates

\* Lines 86-90.
CandidatesToCopy(num_lkh_candidates, td) ==
    IF num_lkh_candidates > td.MaxCandidatesPerStep
    THEN td.MaxCandidatesPerStep
    ELSE num_lkh_candidates

SentinelFillOmitted(buf, base, k, width) == buf

\* Lines 105-108: slots candidates_to_copy .. MaxCandidatesPerStep - 1 of the step.
RECURSIVE SentinelFill(_, _, _, _)
SentinelFill(buf, base, k, width) ==
    IF k >= width THEN buf ELSE SentinelFill(Store(buf, base + k, 0), base, k + 1, width)

\* Lines 70-108: the buffers after the state half of step step_idx is written.
StateHalf(td, mem, current_node_id, current_tour_array, current_tour_cost, lkh_candidate_ids, lkh_candidate_costs, num_lkh_candidates) ==
    LET step_idx == td.TrajectorySize
        base == step_idx * td.MaxCandidatesPerStep
        candidates_to_copy == CandidatesToCopy(num_lkh_candidates, td)
    IN  [ mem EXCEPT
            !.TourSnapshots = Memcpy(@, step_idx * td.Dimension, current_tour_array,
                                     td.Dimension),
            !.CurrentNodeAtStep = Store(@, step_idx, current_node_id),
            !.TourCostAtStep = Store(@, step_idx, current_tour_cost),
            !.ActualNumCandidatesAtStep = Store(@, step_idx, candidates_to_copy),
            !.CandidateNodeIds =
                SentinelFill(Memcpy(@, base, lkh_candidate_ids, candidates_to_copy),
                             base, candidates_to_copy, td.MaxCandidatesPerStep),
            !.CandidateCosts =
                SentinelFill(Memcpy(@, base, lkh_candidate_costs, candidates_to_copy),
                             base, candidates_to_copy, td.MaxCandidatesPerStep) ]

SizeAfterStateIncrementing(td) == td.TrajectorySize + 1

\* Lines 110-112: TrajectorySize is not incremented by TD_RecordState.
SizeAfterState(td) == td.TrajectorySize

StateBufs == BufNames \ {"ChosenNodeAtStep", "ChosenNodeGainAtStep"}
ActionBufs == {"ChosenNodeAtStep", "ChosenNodeGainAtStep"}

\* A write through a NULL pointer: the process dies.
NullAccess(td, bufs) == \E b \in bufs : td[b] = NULL

\* A write past the end of a buffer: the process may die, or go on with the
\* write landing outside the recorder's buffers.
OutOfBounds(td, mem) == td.TrajectorySize >= Len(mem.ChosenNodeAtStep)

TD_RecordState(o, n) ==
    /\ fault = "none"
    /\ UNCHANGED lkvars
    /\ IF Skips(Trajectory)
       THEN /\ last' = Call("TD_RecordState", 0, 0, "skipped")
            /\ UNCHANGED << Trajectory, Mem, live, fault, hist >>
       ELSE IF NullAccess(Trajectory, StateBufs)
       THEN /\ fault' = "segv"
            /\ last' = Call("TD_RecordState", 0, 0, "fault")
            /\ UNCHANGED << Trajectory, Mem, live, hist >>
       ELSE
         \/ /\ OutOfBounds(Trajectory, Mem)
            /\ fault' = "overflow"
            /\ last' = Call("TD_RecordState", 0, 0, "fault")
            /\ UNCHANGED << Trajectory, Mem, live, hist >>
         \/ /\ Mem' = StateHalf(Trajectory, Mem, o, TourFrom(o, Trajectory.Dimension),
                                TourCostOf(o), CandIds(o, n), CandCosts(o, n), n)
            /\ Trajectory' = [ Trajectory EXCEPT !.TrajectorySize = SizeAfterState(Trajectory) ]
            /\ hist' = [ hist EXCEPT !.stateAt = @ \cup {Trajectory.TrajectorySize} ]
            /\ last' = Call("TD_RecordState", 0, 0, "recorded")
            /\ UNCHANGED << live, fault >>

\* ------------------------------------------------------------------ TD_RecordAction
ActionHalfAtNextIndex(td, mem, chosen_node_id, chosen_node_gain) ==
    LET step_idx == td.TrajectorySize + 1
    IN  [ mem EXCEPT !.ChosenNodeAtStep = Store(@, step_idx, chosen_node_id),
                     !.ChosenNodeGainAtStep = Store(@, step_idx, chosen_node_gain) ]

\* Lines 119-122.
ActionHalf(td, mem, chosen_node_id, chosen_node_gain) ==
    LET step_idx == td.TrajectorySize
    IN  [ mem EXCEPT !.ChosenNodeAtStep = Store(@, step_idx, chosen_node_id),
                     !.ChosenNodeGainAtStep = Store(@, step_idx, chosen_node_gain) ]

\* Line 125.
SizeAfterAction(td) == td.TrajectorySize + 1

TD_RecordAction(c, g) ==
    /\ fault = "none"
    /\ UNCHANGED lkvars
    /\ IF Skips(Trajectory)
       THEN /\ last' = Call("TD_RecordAction", 0, 0, "skipped")
            /\ UNCHANGED << Trajectory, Mem, live, fault, hist >>
       ELSE IF NullAccess(Trajectory, ActionBufs)
       THEN /\ fault' = "segv"
            /\ last' = Call("TD_RecordAction", 0, 0, "fault")
            /\ UNCHANGED << Trajectory, Mem, live, hist >>
       ELSE
         \/ /\ OutOfBounds(Trajectory, Mem)
            /\ fault' = "overflow"
            /\ last' = Call("TD_RecordAction", 0, 0, "fault")
            /\ UNCHANGED << Trajectory, Mem, live, hist >>
         \/ /\ Mem' = ActionHalf(Trajectory, Mem, c, g)
            /\ Trajectory' = [ Trajectory EXCEPT !.TrajectorySize = SizeAfterAction(Trajectory) ]
            /\ hist' = [ hist EXCEPT
                           !.actionAt = @ \cup {Trajectory.TrajectorySize},
                           !.orphan = @ \/ Trajectory.TrajectorySize \notin hist.stateAt ]
            /\ last' = Call("TD_RecordAction", 0, 0, "recorded")
            /\ UNCHANGED << live, fault >>

\* ------------------------------------------------------------------ specification
\* Requests the allocator may refuse in one TD_Initialize: the first, the last,
\* or all of them.
FailSets == { {BufOrder[1]}, {BufOrder[Len(BufOrder)]}, BufNames }

Next ==
    \/ \E a \in InitArgs :
          /\ InvalidParameters(a[1], a[2], a[3])
          /\ TD_Initialize(a[1], a[2], a[3], {}, 0)
    \/ \E a \in { <<1, 1, 1>>, <<MaxDim, MaxSteps, MaxCand>> }, failSet \in FailSets :
          TD_Initialize(a[1], a[2], a[3], failSet, 0)
    \/ \E a \in InitArgs, j \in Junk :
          /\ ~InvalidParameters(a[1], a[2], a[3])
          /\ TD_Initialize(a[1], a[2], a[3], {}, j)
    \/ TD_EnableRecording
    \/ TD_DisableRecording
    \/ \E in \in StateInputs : TD_RecordState(in[1], in[2])
    \/ \E c \in Chosen : TD_RecordAction(c, GainOf(c))
    \/ TD_Cleanup

Spec == Init /\ [][Next]_vars

\* ------------------------------------------------------------------ claims
Size == Trajectory.TrajectorySize
Capacity == Trajectory.MaxTrajectorySize
Width == Trajectory.MaxCandidatesPerStep
Enabled == Trajectory.RecordingEnabled = 1

\* C1: in every state reachable by any sequence of recorder calls,
\* 0 <= TrajectorySize <= MaxTrajectorySize.
C1_SizeWithinCapacity == 0 <= Size /\ Size <= Capacity

\* C1 witness: recording is on, the buffer is full at the largest capacity and a
\* further TD_RecordAction was skipped.
C1_Witness ==
    /\ Enabled /\ Size = MaxSteps /\ Capacity = MaxSteps
    /\ last.op = "TD_RecordAction" /\ last.path = "skipped"

\* C2 (as claimed): under any sequence of recorder calls every step below
\* TrajectorySize had its state half written by TD_RecordState and its action
\* half written by TD_RecordAction.
C2_EveryCountedStepHasBothHalves ==
    \A i \in 0..(Size - 1) : i \in hist.stateAt /\ i \in hist.actionAt

\* C2 (amended): every step below TrajectorySize had its action half written by
\* TD_RecordAction for that index, and it also has the state half written by
\* TD_RecordState for that index unless some TD_RecordAction was called for a
\* step no state had been recorded for.
C2_CountedStepsHaveActionHalf ==
    /\ \A i \in 0..(Size - 1) : i \in hist.actionAt
    /\ ~hist.orphan => \A i \in 0..(Size - 1) : i \in hist.stateAt

\* C2 witness: two counted steps, each recorded state first, action second.
C2_Witness ==
    /\ Size = 2 /\ ~hist.orphan /\ hist.stateAt = {0, 1} /\ hist.actionAt = {0, 1}

\* C3: TD_RecordAction, when recording and not full, writes chosen id and gain
\* into the step at index TrajectorySize and increases TrajectorySize by exactly
\* one, leaving every other action cell alone; TD_RecordState never changes
\* TrajectorySize.
C3_ActionAdvancesStateDoesNot ==
    [][ /\ \A c \in Chosen :
            (Enabled /\ Size < Capacity /\ TD_RecordAction(c, GainOf(c))) =>
                /\ Trajectory'.TrajectorySize = Size + 1
                /\ At(Mem'.ChosenNodeAtStep, Size) = c
                /\ At(Mem'.ChosenNodeGainAtStep, Size) = GainOf(c)
                /\ \A i \in 0..(Capacity - 1) : i # Size =>
                     /\ At(Mem'.ChosenNodeAtStep, i) = At(Mem.ChosenNodeAtStep, i)
                     /\ At(Mem'.ChosenNodeGainAtStep, i) = At(Mem.ChosenNodeGainAtStep, i)
        /\ \A in \in StateInputs :
            TD_RecordState(in[1], in[2]) => Trajectory'.TrajectorySize = Size
      ]_vars

\* C3 witness: the second step was completed by TD_RecordAction.
C3_Witness ==
    /\ last.op = "TD_RecordAction" /\ last.path = "recorded" /\ Size = 2
    /\ At(Mem.ChosenNodeAtStep, 1) = MaxDim /\ At(Mem.ChosenNodeGainAtStep, 1) = GainOf(MaxDim)

\* Recording disabled, recorder without buffers, or buffer full.
NoOpCase == ~Enabled \/ Pointers(Trajectory) = {} \/ Size = Capacity

\* C4: with recording disabled, the recorder uninitialized, or the buffer full,
\* TD_RecordState and TD_RecordAction change neither the size, nor any stored
\* step, nor the enabled flag, nor the heap, and raise no fault.
C4_SilentNoOp ==
    [][ ( /\ NoOpCase
          /\ \/ \E in \in StateInputs : TD_RecordState(in[1], in[2])
             \/ \E c \in Chosen : TD_RecordAction(c, GainOf(c)) )
        => /\ UNCHANGED << Trajectory, Mem, live >>
           /\ fault' = "none" ]_vars

\* C4 witness: a TD_RecordState call was skipped while recording was on and the
\* buffer was full.
C4_Witness ==
    /\ last.op = "TD_RecordState" /\ last.path = "skipped"
    /\ Enabled /\ Size = Capacity /\ Capacity > 0

\* Slots ActualNumCandidatesAtStep[i] .. MaxCandidatesPerStep - 1 of step i hold
\* the sentinel 0 in both candidate tables.
PaddedWithZero(i) ==
    \A k \in 0..(Width - 1) :
        k >= At(Mem.ActualNumCandidatesAtStep, i) =>
            /\ At(Mem.CandidateNodeIds, i * Width + k) = 0
            /\ At(Mem.CandidateCosts, i * Width + k) = 0

\* C5 (as claimed): every step below TrajectorySize is zero-padded beyond its
\* actual candidate count.
C5_EveryCountedStepPadded == \A i \in 0..(Size - 1) : PaddedWithZero(i)

\* C5 (amended): every step below TrajectorySize whose state half was written by
\* TD_RecordState is zero-padded beyond its actual candidate count, whatever the
\* slots held before (fresh memory, or an earlier TD_RecordState for that step).
C5_RecordedStepsPadded ==
    \A i \in 0..(Size - 1) : i \in hist.stateAt => PaddedWithZero(i)

\* C5 witness: step 0 is complete with one candidate of two slots, its second
\* cost slot is 0, and the untouched step 1 still holds the nonzero word the
\* allocation came with.
C5_Witness ==
    /\ Size = 1 /\ Capacity = 2 /\ Width = 2 /\ 0 \in hist.stateAt
    /\ At(Mem.ActualNumCandidatesAtStep, 0) = 1
    /\ At(Mem.CandidateCosts, 1) = 0
    /\ At(Mem.CandidateCosts, 3) = 1

\* C6: TD_RecordState with more candidates than MaxCandidatesPerStep raises no
\* fault and stores ActualNumCandidatesAtStep = MaxCandidatesPerStep with the first
\* MaxCandidatesPerStep ids and costs in input order; with no more candidates
\* than that it stores the count and those candidates.
C6_TruncatesSilently ==
    [][ \A in \in StateInputs :
          (Enabled /\ Size < Capacity /\ TD_RecordState(in[1], in[2])) =>
             LET o == in[1]
                 n == in[2]
                 kept == IF n > Width THEN Width ELSE n
             IN  /\ fault' = "none"
                 /\ At(Mem'.ActualNumCandidatesAtStep, Size) = kept
                 /\ \A k \in 0..(kept - 1) :
                      /\ At(Mem'.CandidateNodeIds, Size * Width + k) = CandId(o, k + 1)
                      /\ At(Mem'.CandidateCosts, Size * Width + k) = CandCost(o, k + 1)
      ]_vars

\* C6 witness: a step of the widest recorder holds MaxCand candidates, which
\* only the input with MaxCand + 1 candidates produces.
C6_Witness ==
    /\ last.op = "TD_RecordState" /\ last.path = "recorded"
    /\ Width = MaxCand /\ MaxCand > 1
    /\ At(Mem.ActualNumCandidatesAtStep, Size) = MaxCand
    /\ At(Mem.CandidateNodeIds, Size * Width + MaxCand - 1) = CandId(1, MaxCand)

\* C7: TD_Initialize with a dimension, capacity or width <= 0 returns -1,
\* allocates nothing and changes no field of the recorder.
C7_InvalidInitializeChangesNothing ==
    [][ last'.op = "TD_Initialize" =>
          \A a \in InitArgs, failSet \in FailSets \cup {{}}, j \in Junk :
            ( /\ a[1] <= 0 \/ a[2] <= 0 \/ a[3] <= 0
              /\ failSet # {} => j = 0
              /\ TD_Initialize(a[1], a[2], a[3], failSet, j) )
            => /\ last'.ret = -1
               /\ UNCHANGED << Trajectory, Mem, live, fault >>
      ]_vars

\* C7 witness: an initialized, recording instance with a completed step has just
\* had a TD_Initialize call rejected.
C7_Witness ==
    /\ last.op = "TD_Initialize" /\ last.path = "invalid" /\ last.ret = -1
    /\ Enabled /\ Size = 1 /\ Trajectory.Dimension = MaxDim

\* C8: recording is enabled only while a successful TD_Initialize is in effect:
\* RecordingEnabled = 1 implies Dimension > 0, MaxTrajectorySize > 0 and all
\* eight buffers allocated; TD_EnableRecording on an instance without buffers
\* leaves it disabled.
C8_EnabledOnlyWhenInitialized ==
    Enabled =>
        /\ Trajectory.Dimension > 0
        /\ Capacity > 0
        /\ \A b \in BufNames : Trajectory[b] # NULL /\ Trajectory[b] \in live

\* C8 witness: TD_EnableRecording was called on an instance without buffers
\* while blocks of an earlier initialization are still on the heap, and
\* recording stayed off.
C8_Witness ==
    /\ last.op = "TD_EnableRecording"
    /\ Pointers(Trajectory) = {} /\ live # {} /\ ~Enabled

\* C9: after TD_Cleanup every scalar is 0, every pointer NULL and the blocks the
\* instance held are no longer allocated; a TD_Cleanup directly after a
\* TD_Cleanup changes nothing and frees nothing.
C9_CleanupIdempotent ==
    [][ /\ last'.op = "TD_Cleanup" =>
             /\ Trajectory'.TrajectorySize = 0
             /\ Trajectory'.MaxTrajectorySize = 0
             /\ Trajectory'.Dimension = 0
             /\ Trajectory'.MaxCandidatesPerStep = 0
             /\ Trajectory'.RecordingEnabled = 0
             /\ Pointers(Trajectory') = {}
             /\ Pointers(Trajectory) \cap live' = {}
             /\ fault' = "none"
        /\ (last'.op = "TD_Cleanup" /\ last.op = "TD_Cleanup") =>
             /\ UNCHANGED << Trajectory, Mem, live >>
             /\ last'.freed = 0
      ]_vars

\* C9 witness: TD_Cleanup ran a second time in a row and freed nothing.
C9_Witness == last.op = "TD_Cleanup" /\ last.again /\ last.freed = 0

\* Every scalar 0 and every pointer NULL.
AllClear(td) ==
    /\ td.TrajectorySize = 0 /\ td.MaxTrajectorySize = 0 /\ td.Dimension = 0
    /\ td.MaxCandidatesPerStep = 0 /\ td.RecordingEnabled = 0
    /\ Pointers(td) = {}

\* C10: when a malloc of TD_Initialize fails (the call takes the path of lines
\* 43-49, which it must when the heap cannot supply eight blocks), the call
\* returns -1 with every block it allocated freed again, every scalar 0, every
\* pointer NULL, recording off, and the rest of the heap as it was.
C10_FailedAllocationReleasesAll ==
    [][ last'.op = "TD_Initialize" =>
          /\ last'.path = "nomem" =>
                /\ last'.ret = -1
                /\ live' = live
                /\ AllClear(Trajectory')
                /\ fault' = "none"
          /\ (Cardinality(live) + Len(BufOrder) > HeapBlocks /\ last'.path # "invalid")
                => last'.path = "nomem"
      ]_vars

\* C10 witness: a TD_Initialize whose last malloc failed has freed the seven
\* blocks it had obtained.
C10_Witness ==
    /\ last.op = "TD_Initialize" /\ last.path = "nomem" /\ last.freed = 7

\* Blocks on the heap that no pointer of the instance refers to any more.
Unreachable == live \ Pointers(Trajectory)

\* C11: in any sequence of TD_Initialize and TD_Cleanup calls, the buffers an
\* initialize allocated are released by exactly one later call: no block is
\* freed twice, and no block is left allocated and unreachable.
C11_StorageReleasedExactlyOnce ==
    /\ fault # "double_free"
    /\ Unreachable = {}

\* ================================================================== LinKernighan
\* ------------------------------------------------------------------ the instance
Dimension == MaxNodes
Nodes == 1..Dimension

\* Costs are integers pre-multiplied by Precision.
Precision == 10

\* The cost matrix as read from the problem, and the penalties Ascent() computed.
D(a, b) == (a - b) * (a - b)
Pi(n) == 3 * n

\* CreateCandidateSet.c:89-96 and 136-141: what C(a, b) returns during the search.
C(a, b) == D(a, b) * Precision + Pi(a) + Pi(b)

\* The per-node keys of the tour hash.
Rand(n) == 3 * n + 1

\* a ^ b on non-negative integers.
RECURSIVE Xor(_, _)
Xor(a, b) ==
    IF a = 0 THEN b
    ELSE IF b = 0 THEN a
    ELSE (((a % 2) + (b % 2)) % 2) + 2 * Xor(a \div 2, b \div 2)

EdgeKey(a, b) == Rand(a) * Rand(b)

\* A node's candidate set: the other nodes in catalog order, each with the cost
\* of the edge to it.
Others(n) == [ k \in 1..(Dimension - 1) |-> IF k < n THEN k ELSE k + 1 ]
CandidateSetOf(n) == [ k \in 1..(Dimension - 1) |-> [ To |-> Others(n)[k], Cost |-> C(n, Others(n)[k]) ] ]

\* ------------------------------------------------------------------ the tour
\* Direction-aware successor and predecessor.
SUC(s, n) == IF s.Reversed = 0 THEN s.Suc[n] ELSE s.Pred[n]
PRED(s, n) == IF s.Reversed = 0 THEN s.Pred[n] ELSE s.Suc[n]

\* The k nodes met from n on, following the direction-aware successor.
RECURSIVE Walk(_, _, _)
Walk(s, n, k) == IF k = 0 THEN << >> ELSE << n >> \o Walk(s, SUC(s, n), k - 1)

\* The k nodes met from n on, following the raw Suc field.
RECURSIVE WalkSuc(_, _, _)
WalkSuc(suc, n, k) == IF k = 0 THEN << >> ELSE << n >> \o WalkSuc(suc, suc[n], k - 1)

Rev(seq) == [ i \in 1..Len(seq) |-> seq[Len(seq) + 1 - i] ]

PosIn(seq, n) == CHOOSE i \in 1..Len(seq) : seq[i] = n

\* The raw links under which the direction-aware order is `order` when the
\* orientation flag is `reversed`.
LinksOf(order, reversed) ==
    LET len == Len(order)
        after(n) == order[(PosIn(order, n) % len) + 1]
        before(n) == order[((PosIn(order, n) + len - 2) % len) + 1]
    IN  [ Suc  |-> [ n \in Nodes |-> IF reversed = 0 THEN after(n) ELSE before(n) ],
          Pred |-> [ n \in Nodes |-> IF reversed = 0 THEN before(n) ELSE after(n) ] ]

ReverseSegmentLeavingPred(s, a, len) ==
    LET order == Walk(s, a, Dimension)
        new == Rev(SubSeq(order, 1, len)) \o SubSeq(order, len + 1, Dimension)
    IN  [ s EXCEPT !.Suc = IF s.Reversed = 0 THEN LinksOf(new, 0).Suc ELSE @,
                   !.Pred = IF s.Reversed = 0 THEN @ ELSE LinksOf(new, 1).Pred ]

\* reverseSegment: the path of len nodes that starts at a is inverted. Either the
\* links of the path are rewritten, or (a tour store that inverts logically)
\* those of the rest of the tour are and the orientation flag is toggled. The
\* hash follows the two edges exchanged.
ReverseSegment(s, a, len) ==
    LET order == Walk(s, a, Dimension)
        b == order[len]
        p == order[Dimension]
        n == order[len + 1]
        new == Rev(SubSeq(order, 1, len)) \o SubSeq(order, len + 1, Dimension)
        flag == IF s.Logical THEN 1 - s.Reversed ELSE s.Reversed
        links == LinksOf(new, flag)
    IN  [ s EXCEPT !.Suc = links.Suc, !.Pred = links.Pred, !.Reversed = flag,
                   !.Hash = Xor(Xor(Xor(Xor(@, EdgeKey(p, a)), EdgeKey(b, n)),
                                    EdgeKey(p, b)), EdgeKey(a, n)) ]

\* ------------------------------------------------------------------ the active queue
\* Activate(N): N is appended to the circular list FirstActive .. LastActive
\* unless its Next link says it is already in it.
Activate(s, N) ==
    IF s.Next[N] # 0 THEN s
    ELSE IF s.FirstActive = 0
    THEN [ s EXCEPT !.FirstActive = N, !.LastActive = N, !.Next[N] = N ]
    ELSE [ s EXCEPT !.Next = [ @ EXCEPT ![s.LastActive] = N, ![N] = s.FirstActive ],
                    !.LastActive = N ]

\* RemoveFirstActive(): the first node of the list (0 when it is empty), and the
\* list without it.
RemoveFirstActive(s) ==
    LET N == s.FirstActive
        rest == IF s.FirstActive = s.LastActive
                THEN [ s EXCEPT !.FirstActive = 0, !.LastActive = 0 ]
                ELSE [ s EXCEPT !.FirstActive = s.Next[N],
                                !.Next[s.LastActive] = s.Next[N] ]
    IN  [ N |-> N,
          s |-> IF N = 0 THEN rest ELSE [ rest EXCEPT !.Next[N] = 0 ] ]

\* The nodes of the list from FirstActive to LastActive.
RECURSIVE ListFrom(_, _, _)
ListFrom(s, n, k) ==
    IF n = 0 \/ k = 0 THEN << >>
    ELSE IF n = s.LastActive THEN << n >>
    ELSE << n >> \o ListFrom(s, s.Next[n], k - 1)

ActiveList(s) == ListFrom(s, s.FirstActive, Dimension + 1)

\* The queue of spec section 4.2: append unless present, pop at the front.
Range(seq) == { seq[i] : i \in 1..Len(seq) }
Enqueue(q, n) == IF n \in Range(q) THEN q ELSE Append(q, n)

\* ------------------------------------------------------------------ edge classes
Edge(a, b) == {a, b}
InBestTour(s, a, b) == s.BestSuc[a] = b \/ s.BestSuc[b] = a
Fixed(s, a, b) == Edge(a, b) \in s.FixedEdges
Near(s, a, b) == Edge(a, b) \in s.NearEdges

\* ------------------------------------------------------------------ a trial's entry state
\* a / b as C computes it (truncation toward zero), b > 0.
CDiv(a, b) == IF a >= 0 THEN a \div b ELSE -((-a) \div b)

\* Initial tours handed to a trial: 1, 2, .., N and the odd nodes followed by
\* the even ones.
IdentityTour == [ i \in 1..Dimension |-> i ]
OddEvenTour ==
    LET odd == (Dimension + 1) \div 2
    IN  [ i \in 1..Dimension |-> IF i <= odd THEN 2 * i - 1 ELSE 2 * (i - odd) ]
InitialTours == { IdentityTour, OddEvenTour }

EdgesOf(order) == { Edge(order[i], order[(i % Len(order)) + 1]) : i \in 1..Len(order) }

RECURSIVE HashOfEdges(_)
HashOfEdges(es) ==
    IF es = {} THEN 0
    ELSE LET e == CHOOSE x \in es : TRUE
             a == CHOOSE x \in e : TRUE
             b == CHOOSE x \in e : x # a
         IN  Xor(EdgeKey(a, b), HashOfEdges(es \ {e}))

RECURSIVE SumD(_)
SumD(es) ==
    IF es = {} THEN 0
    ELSE LET e == CHOOSE x \in es : TRUE
             a == CHOOSE x \in e : TRUE
             b == CHOOSE x \in e : x # a
         IN  D(a, b) + SumD(es \ {e})

\* What the run controller knows when the trial starts: no best tour yet; the
\* identity tour is the best tour and its edges are near; the identity tour is
\* the best tour and edge (1, 2) is fixed.
EdgeScenarios ==
    { [ BestSuc |-> [ n \in Nodes |-> 0 ], NearEdges |-> {}, FixedEdges |-> {} ],
      [ BestSuc |-> LinksOf(IdentityTour, 0).Suc, NearEdges |-> EdgesOf(IdentityTour),
        FixedEdges |-> {} ],
      [ BestSuc |-> LinksOf(IdentityTour, 0).Suc, NearEdges |-> {},
        FixedEdges |-> { Edge(1, 2) } ] }

\* Every tour through node 1 and the (hash, cost) pair that stands for it.
Tours == { t \in [ 1..Dimension -> Nodes ] : t[1] = 1 /\ \A i, j \in 1..Dimension : t[i] = t[j] => i = j }
PairOf(t) == << HashOfEdges(EdgesOf(t)), SumD(EdgesOf(t)) >>

\* Hashing off; hashing on with an empty table; hashing on with the identity
\* tour in the table (inserted when it became the better tour); hashing on with
\* a table in which every tour finds a matching pair (colliding entries).
HashScenarios ==
    { [ HashingUsed |-> 0, HTable |-> {} ],
      [ HashingUsed |-> 1, HTable |-> {} ],
      [ HashingUsed |-> 1,
        HTable |-> { << HashOfEdges(EdgesOf(IdentityTour)), SumD(EdgesOf(IdentityTour)) >> } ],
      [ HashingUsed |-> 1, HTable |-> { PairOf(t) : t \in Tours } ] }

\* The queue links an earlier trial left behind: none, or node 1 still queued
\* (a trial that stopped on a hash hit).
QueueScenarios ==
    { [ FirstActive |-> 0, LastActive |-> 0, Next |-> [ n \in Nodes |-> 0 ] ],
      [ FirstActive |-> 1, LastActive |-> 1, Next |-> [ n \in Nodes |-> IF n = 1 THEN 1 ELSE 0 ] ] }

\* The edges a tour is penalized for: none, or edge (1, 3).
PenaltyScenarios == { {}, { Edge(1, 3) } }

EntryState(tour, e, h, q, kick, trial, penalized, logical) ==
    [ pc |-> "entry",
      FirstNode |-> tour[1],
      Suc |-> LinksOf(tour, 0).Suc, Pred |-> LinksOf(tour, 0).Pred,
      OldSuc |-> [ n \in Nodes |-> 0 ], OldPred |-> [ n \in Nodes |-> 0 ],
      Rank |-> [ n \in Nodes |-> 0 ],
      CandidateSet |-> [ n \in Nodes |-> CandidateSetOf(n) ],
      Next |-> q.Next, FirstActive |-> q.FirstActive, LastActive |-> q.LastActive,
      Reversed |-> 0, Cost |-> 0, CurrentPenalty |-> 0, Hash |-> 0,
      SwapStack |-> << >>,
      t1 |-> 0, t2 |-> 0, SUCt1 |-> 0, X2 |-> 0, G0 |-> 0, Gain |-> 0, PenaltyGain |-> 0,
      Trial |-> trial, KickType |-> kick,
      HashingUsed |-> h.HashingUsed, HTable |-> h.HTable,
      BestSuc |-> e.BestSuc, NearEdges |-> e.NearEdges, FixedEdges |-> e.FixedEdges,
      PenalizedEdges |-> penalized, Logical |-> logical,
      ret |-> 0 ]

\* ------------------------------------------------------------------ RecordDecision
\* (double) a / b, kept exact as the pair numerator, denominator.
Ratio(a, b) == << a, b >>

\* TD_RecordState as a function of the recorder.
RecordStateOf(r, current_node_id, current_tour_array, current_tour_cost, lkh_candidate_ids, lkh_candidate_costs, num_lkh_candidates) ==
    IF Skips(r.td) \/ r.fault # "none" THEN r
    ELSE IF NullAccess(r.td, StateBufs) THEN [ r EXCEPT !.fault = "segv" ]
    ELSE [ r EXCEPT
             !.mem = StateHalf(r.td, r.mem, current_node_id, current_tour_array,
                               current_tour_cost, lkh_candidate_ids, lkh_candidate_costs,
                               num_lkh_candidates),
             !.td = [ r.td EXCEPT !.TrajectorySize = SizeAfterState(r.td) ] ]

\* TD_RecordAction as a function of the recorder.
RecordActionOf(r, chosen_node_id, chosen_node_gain) ==
    IF Skips(r.td) \/ r.fault # "none" THEN r
    ELSE IF NullAccess(r.td, ActionBufs) THEN [ r EXCEPT !.fault = "segv" ]
    ELSE [ r EXCEPT
             !.mem = ActionHalf(r.td, r.mem, chosen_node_id, chosen_node_gain),
             !.td = [ r.td EXCEPT !.TrajectorySize = SizeAfterAction(r.td) ] ]

Min(a, b) == IF a < b THEN a ELSE b

RecordDecisionConsumingCandidates(s, r, t, selected_candidate_node, gain, current_tour_cost_from_caller) ==
    IF r.td.RecordingEnabled = 0 \/ r.td.TrajectorySize >= r.td.MaxTrajectorySize
    THEN [ s |-> s, r |-> r ]
    ELSE IF r.td.Dimension <= 0 \/ r.td.MaxCandidatesPerStep <= 0
    THEN [ s |-> s, r |-> r ]
    ELSE LET current_tour_array == WalkSuc(s.Suc, s.FirstNode, r.td.Dimension)
             actual_candidate_count ==
                 Min(Len(s.CandidateSet[t]), r.td.MaxCandidatesPerStep)
             lkh_candidate_ids ==
                 [ k \in 1..actual_candidate_count |-> s.CandidateSet[t][k].To ]
             lkh_candidate_costs ==
                 [ k \in 1..actual_candidate_count |->
                       Ratio(s.CandidateSet[t][k].Cost, Precision) ]
             chosen_node_id == selected_candidate_node
             chosen_gain == Ratio(gain, Precision)
             r1 == RecordStateOf(r, t, current_tour_array,
                                 current_tour_cost_from_caller, lkh_candidate_ids,
                                 lkh_candidate_costs, actual_candidate_count)
         IN  [ s |-> [ s EXCEPT !.CandidateSet[t] =
                                 SubSeq(@, actual_candidate_count + 1, Len(@)) ],
               r |-> RecordActionOf(r1, chosen_node_id, chosen_gain) ]

\* Lines 12-80. r is the recorder (instance, buffers, fault); the result is the
\* solver state and the recorder after the call.
RecordDecisionWithRawGain(s, r, t, selected_candidate_node, gain, current_tour_cost_from_caller) ==
    IF r.td.RecordingEnabled = 0 \/ r.td.TrajectorySize >= r.td.MaxTrajectorySize
    THEN [ s |-> s, r |-> r ]
    ELSE IF r.td.Dimension <= 0 \/ r.td.MaxCandidatesPerStep <= 0
    THEN [ s |-> s, r |-> r ]
    ELSE LET current_tour_array == WalkSuc(s.Suc, s.FirstNode, r.td.Dimension)
             actual_candidate_count ==
                 Min(Len(s.CandidateSet[t]), r.td.MaxCandidatesPerStep)
             lkh_candidate_ids ==
                 [ k \in 1..actual_candidate_count |-> s.CandidateSet[t][k].To ]
             lkh_candidate_costs ==
                 [ k \in 1..actual_candidate_count |->
                       Ratio(s.CandidateSet[t][k].Cost, Precision) ]
             chosen_node_id == selected_candidate_node
             chosen_gain == Ratio(gain, 1)
             r1 == RecordStateOf(r, t, current_tour_array,
                                 current_tour_cost_from_caller, lkh_candidate_ids,
                                 lkh_candidate_costs, actual_candidate_count)
         IN  [ s |-> s, r |-> RecordActionOf(r1, chosen_node_id, chosen_gain) ]

RecordDecision(s, r, t, selected_candidate_node, gain, current_tour_cost_from_caller) ==
    IF r.td.RecordingEnabled = 0 \/ r.td.TrajectorySize >= r.td.MaxTrajectorySize
    THEN [ s |-> s, r |-> r ]
    ELSE IF r.td.Dimension <= 0 \/ r.td.MaxCandidatesPerStep <= 0
    THEN [ s |-> s, r |-> r ]
    ELSE LET current_tour_array == WalkSuc(s.Suc, s.FirstNode, r.td.Dimension)
             actual_candidate_count ==
                 Min(Len(s.CandidateSet[t]), r.td.MaxCandidatesPerStep)
             lkh_candidate_ids ==
                 [ k \in 1..actual_candidate_count |-> s.CandidateSet[t][k].To ]
             lkh_candidate_costs ==
                 [ k \in 1..actual_candidate_count |->
                       Ratio(s.CandidateSet[t][k].Cost, Precision) ]
             chosen_node_id == selected_candidate_node
             chosen_gain == Ratio(gain, Precision)
             r1 == RecordStateOf(r, t, current_tour_array,
                                 current_tour_cost_from_caller, lkh_candidate_ids,
                                 lkh_candidate_costs, actual_candidate_count)
         IN  [ s |-> s, r |-> RecordActionOf(r1, chosen_node_id, chosen_gain) ]

\* ------------------------------------------------------------------ collaborators of the loop
\* One exchange on the swap stack: the path that was inverted (now running from
\* `last` to `first`) and its two outer neighbours.
SwapOf(order, len) ==
    [ first |-> order[1], last |-> order[len], before |-> order[Dimension],
      after |-> order[len + 1], len |-> len ]

\* Penalty(): the penalty of the current tour, one for each penalized edge in it.
Penalty(s) == Cardinality(EdgesOf(Walk(s, s.FirstNode, Dimension)) \cap s.PenalizedEdges)

\* SpecialMove(t1, t2, &G0, &Gain): no exchange (len = 0), or the exchange that
\* replaces edge (t1, t2) and one other tour edge by inverting a path of len
\* nodes that starts at the later of t1 and t2. Gain is what the tour cost went
\* down by, PenaltyGain what the penalty went down by.
SpecialMove(s, len) ==
    IF len = 0
    THEN [ s EXCEPT !.Gain = 0, !.PenaltyGain = 0 ]
    ELSE LET a == IF SUC(s, s.t1) = s.t2 THEN s.t2 ELSE s.t1
             sw == SwapOf(Walk(s, a, Dimension), len)
             s1 == ReverseSegment(s, a, len)
         IN  [ s1 EXCEPT
                 !.SwapStack = Append(@, sw),
                 !.Gain = C(sw.before, sw.first) + C(sw.last, sw.after)
                          - C(sw.before, sw.last) - C(sw.first, sw.after),
                 !.PenaltyGain = Penalty(s) - Penalty(s1) ]

\* Path lengths SpecialMove may invert.
Lengths == 2..(Dimension - 2)

\* An exchange that lowers the cost but raises the penalty is not reported.
Reported(s) == ~(s.Gain > 0 /\ s.PenaltyGain < 0)

\* StoreTour(): the exchanges on the stack become part of the stored tour; their
\* end nodes are activated.
RECURSIVE StoreTour(_)
StoreTour(s) ==
    IF s.SwapStack = << >> THEN s
    ELSE LET sw == s.SwapStack[Len(s.SwapStack)]
             ends == << sw.before, sw.first, sw.last, sw.after >>
             s1 == Activate(Activate(Activate(Activate(s, ends[1]), ends[2]), ends[3]), ends[4])
         IN  StoreTour([ s1 EXCEPT
                 !.SwapStack = SubSeq(@, 1, Len(@) - 1),
                 !.OldSuc = [ n \in Nodes |-> IF n \in Range(ends) THEN s.Suc[n] ELSE @[n] ],
                 !.OldPred = [ n \in Nodes |-> IF n \in Range(ends) THEN s.Pred[n] ELSE @[n] ] ])

\* The Activate calls StoreTour makes, in order.
RECURSIVE StoreTourCalls(_)
StoreTourCalls(stack) ==
    IF stack = << >> THEN << >>
    ELSE LET sw == stack[Len(stack)]
         IN  << sw.before, sw.first, sw.last, sw.after >>
             \o StoreTourCalls(SubSeq(stack, 1, Len(stack) - 1))

\* RestoreTour(): the exchanges on the stack are undone, last first, each by
\* inverting the same path again.
RECURSIVE RestoreTour(_)
RestoreTour(s) ==
    IF s.SwapStack = << >> THEN s
    ELSE LET sw == s.SwapStack[Len(s.SwapStack)]
         IN  RestoreTour([ ReverseSegment(s, sw.last, sw.len) EXCEPT
                             !.SwapStack = SubSeq(s.SwapStack, 1, Len(s.SwapStack) - 1) ])

HashSearch(T, Hash, Cost) == << Hash, Cost >> \in T

\* NormalizeNodeList(): the raw links are rewritten to the direction-aware order.
NormalizeNodeList(s) ==
    [ s EXCEPT !.Suc = [ n \in Nodes |-> SUC(s, n) ],
               !.Pred = [ n \in Nodes |-> PRED(s, n) ] ]

\* ------------------------------------------------------------------ LinKernighan()
\* Lines 96-100 and 107-109.
ResetAtEntry(s) ==
    [ s EXCEPT !.Cost = 0, !.Reversed = 0, !.FirstActive = 0, !.LastActive = 0,
               !.SwapStack = << >>, !.Hash = 0 ]

StartsActiveWithoutKicks(s, t1) ==
    \/ s.KickType # 0
    \/ s.Trial = 1
    \/ ~InBestTour(s, t1, s.Pred[t1])
    \/ ~InBestTour(s, t1, s.Suc[t1])

\* Lines 119-120: whether the node is made active at the start of the trial.
StartsActive(s, t1) ==
    \/ s.KickType = 0
    \/ s.Trial = 1
    \/ ~InBestTour(s, t1, s.Pred[t1])
    \/ ~InBestTour(s, t1, s.Suc[t1])

SeedNodeKeepingNext(s, t1, i) ==
    LET t2 == s.Suc[t1]
        s1 == [ s EXCEPT !.OldSuc[t1] = t2,
                         !.OldPred[t1] = s.Pred[t1],
                         !.Rank[t1] = i,
                         !.Cost = @ + C(t1, t2) - Pi(t1) - Pi(t2),
                         !.Hash = IF s.HashingUsed # 0 THEN Xor(@, EdgeKey(t1, t2)) ELSE @ ]
    IN  IF StartsActive(s1, t1) THEN Activate(s1, t1) ELSE s1

\* Lines 112-121: one pass of the do-while body, for node t1 with counter i.
SeedNode(s, t1, i) ==
    LET t2 == s.Suc[t1]
        s1 == [ s EXCEPT !.OldSuc[t1] = t2,
                         !.OldPred[t1] = s.Pred[t1],
                         !.Rank[t1] = i,
                         !.Cost = @ + C(t1, t2) - Pi(t1) - Pi(t2),
                         !.Hash = IF s.HashingUsed # 0 THEN Xor(@, EdgeKey(t1, t2)) ELSE @,
                         !.Next[t1] = 0 ]
    IN  IF StartsActive(s1, t1) THEN Activate(s1, t1) ELSE s1

\* Lines 110-123: the do-while loop over the tour from FirstNode.
RECURSIVE Seed(_, _, _)
Seed(s, t1, i) ==
    LET s1 == SeedNode(s, t1, i)
    IN  IF s1.Suc[t1] = s1.FirstNode \/ i >= Dimension THEN s1
        ELSE Seed(s1, s1.Suc[t1], i + 1)

\* The Activate calls of lines 110-123, in order.
SeedCalls(s) ==
    LET order == WalkSuc(s.Suc, s.FirstNode, Dimension)
    IN  SelectSeq(order, LAMBDA n : StartsActive(s, n))

\* Lines 96-126.
BeginOf(s) ==
    LET s1 == Seed(ResetAtEntry(s), s.FirstNode, 1)
    IN  [ s1 EXCEPT !.Cost = CDiv(@, Precision),
                    !.CurrentPenalty = Penalty(s1),
                    !.pc = "pop" ]

\* Lines 134-136: while ((t1 = RemoveFirstActive())) { SUCt1 = SUC(t1); X2 = 1.
PopOf(s) ==
    LET r == RemoveFirstActive(s)
    IN  IF r.N = 0
        THEN [ r.s EXCEPT !.t1 = 0, !.pc = "end" ]
        ELSE [ r.s EXCEPT !.t1 = r.N, !.SUCt1 = SUC(r.s, r.N), !.X2 = 1, !.pc = "choose" ]

\* Line 144.
ChoiceOfT2(s) == IF s.X2 = 1 THEN PRED(s, s.t1) ELSE s.SUCt1

SkipsBranchUnlessFirstTrialWithoutKicks(s, t1, t2) ==
    Fixed(s, t1, t2) \/ (Near(s, t1, t2) /\ ~(s.Trial = 1 /\ s.KickType = 0))

\* Lines 145-148: the branch is not tried.
SkipsBranch(s, t1, t2) ==
    Fixed(s, t1, t2) \/ (Near(s, t1, t2) /\ (s.Trial = 1 \/ s.KickType = 0))

ChooseOfRetryingSkipped(s) ==
    IF s.X2 > 2 THEN [ s EXCEPT !.pc = "pop" ]
    ELSE LET t2 == ChoiceOfT2(s)
         IN  IF SkipsBranch(s, s.t1, t2)
             THEN [ s EXCEPT !.t2 = t2 ]
             ELSE [ s EXCEPT !.t2 = t2, !.G0 = C(s.t1, t2), !.SwapStack = << >>,
                             !.PenaltyGain = 0, !.Gain = 0, !.pc = "record" ]

\* Lines 143-151: the head of the for loop up to the recording point.
ChooseOf(s) ==
    IF s.X2 > 2 THEN [ s EXCEPT !.pc = "pop" ]
    ELSE LET t2 == ChoiceOfT2(s)
         IN  IF SkipsBranch(s, s.t1, t2)
             THEN [ s EXCEPT !.t2 = t2, !.X2 = @ + 1 ]
             ELSE [ s EXCEPT !.t2 = t2, !.G0 = C(s.t1, t2), !.SwapStack = << >>,
                             !.PenaltyGain = 0, !.Gain = 0, !.pc = "record" ]

RecordOfStoppingWhenFull(s, r) ==
    LET d == IF r.td.RecordingEnabled # 0
             THEN RecordDecision(s, r, s.t1, s.t2, s.G0, s.Cost)
             ELSE [ s |-> s, r |-> r ]
    IN  IF r.td.RecordingEnabled # 0 /\ r.td.TrajectorySize >= r.td.MaxTrajectorySize
        THEN [ s |-> [ d.s EXCEPT !.pc = "end" ], r |-> d.r ]
        ELSE [ s |-> [ d.s EXCEPT !.pc = "move" ], r |-> d.r ]

RecordOfFirstBranchOnly(s, r) ==
    LET d == IF r.td.RecordingEnabled # 0 /\ s.X2 = 1
             THEN RecordDecision(s, r, s.t1, s.t2, s.G0, s.Cost)
             ELSE [ s |-> s, r |-> r ]
    IN  [ s |-> [ d.s EXCEPT !.pc = "move" ], r |-> d.r ]

\* Lines 155-157.
RecordOf(s, r) ==
    LET d == IF r.td.RecordingEnabled # 0
             THEN RecordDecision(s, r, s.t1, s.t2, s.G0, s.Cost)
             ELSE [ s |-> s, r |-> r ]
    IN  [ s |-> [ d.s EXCEPT !.pc = "move" ], r |-> d.r ]

\* Line 160.
MoveOf(s, len) == [ SpecialMove(s, len) EXCEPT !.pc = "decide" ]

ImprovedOrNoWorse(s) == s.PenaltyGain > 0 \/ s.Gain >= 0

\* Line 161.
Improved(s) == s.PenaltyGain > 0 \/ s.Gain > 0

BookedAddingGain(s) ==
    [ s EXCEPT !.Cost = @ + CDiv(s.Gain, Precision),
               !.CurrentPenalty = @ - s.PenaltyGain ]

BookedWithoutPenalty(s) ==
    [ s EXCEPT !.Cost = @ - CDiv(s.Gain, Precision) ]

\* Lines 164-165.
Booked(s) ==
    [ s EXCEPT !.Cost = @ - CDiv(s.Gain, Precision),
               !.CurrentPenalty = @ - s.PenaltyGain ]

\* Line 173.
SeenBefore(s) == s.HashingUsed # 0 /\ HashSearch(s.HTable, s.Hash, s.Cost)

CommitOfUndoingRepeat(s) ==
    IF s.Gain % Precision # 0 THEN [ s EXCEPT !.pc = "aborted" ]
    ELSE LET s1 == StoreTour(Booked(s))
         IN  IF SeenBefore(s1)
             THEN [ RestoreTour(Booked(s)) EXCEPT !.pc = "end" ]
             ELSE [ Activate(s1, s1.t1) EXCEPT !.pc = "pop" ]

\* Lines 163-177 (the assertion of line 163 aborts the process when it fails).
CommitOf(s) ==
    IF s.Gain % Precision # 0 THEN [ s EXCEPT !.pc = "aborted" ]
    ELSE LET s1 == StoreTour(Booked(s))
         IN  IF SeenBefore(s1)
             THEN [ s1 EXCEPT !.pc = "end" ]
             ELSE [ Activate(s1, s1.t1) EXCEPT !.pc = "pop" ]

RollbackOfWithoutRestore(s) == [ s EXCEPT !.SwapStack = << >>, !.X2 = @ + 1, !.pc = "choose" ]

\* Lines 179-180: RestoreTour(), then the next X2.
RollbackOf(s) == [ RestoreTour(s) EXCEPT !.X2 = @ + 1, !.pc = "choose" ]

\* Lines 182-185.
EndOf(s) == [ NormalizeNodeList(s) EXCEPT !.Reversed = 0, !.ret = s.Cost, !.pc = "done" ]

\* ------------------------------------------------------------------ the trial, step by step
\* The recorder as RecordDecision sees it, and the one of the shadow trial.
Recorder == [ td |-> Trajectory, mem |-> Mem, fault |-> fault ]
DisabledRecorder == [ td |-> ZeroTrajectory, mem |-> EmptyMem, fault |-> "none" ]

RECURSIVE EnqueueAll(_, _)
EnqueueAll(q, calls) ==
    IF calls = << >> THEN q ELSE EnqueueAll(Enqueue(q, Head(calls)), Tail(calls))

\* The mark taken when the trial has computed its initial cost, and the one
\* taken when a t2 branch starts (before SpecialMove touches the links).
MarkAtBegin(s) ==
    [ at |-> "begin", InitialCost |-> s.Cost, InitialPenalty |-> s.CurrentPenalty,
      InitialOrder |-> Walk(s, s.FirstNode, Dimension), CostWentUp |-> FALSE,
      Evaluated |-> 0, SizeAtBegin |-> Trajectory.TrajectorySize,
      SizeAtPop |-> Trajectory.TrajectorySize ]

MarkAtBranch(m, s) ==
    [ at |-> "branch", InitialCost |-> m.InitialCost, InitialPenalty |-> m.InitialPenalty,
      InitialOrder |-> m.InitialOrder, CostWentUp |-> m.CostWentUp,
      Evaluated |-> m.Evaluated + 1, SizeAtBegin |-> m.SizeAtBegin,
      SizeAtPop |-> m.SizeAtPop,
      Suc |-> [ n \in Nodes |-> SUC(s, n) ], Pred |-> [ n \in Nodes |-> PRED(s, n) ],
      RawSuc |-> s.Suc, RawPred |-> s.Pred, Reversed |-> s.Reversed,
      Cost |-> s.Cost, CurrentPenalty |-> s.CurrentPenalty, Hash |-> s.Hash ]

\* The shadow trial takes the same step on the same input.
InStep(s, next) == IF s.pc = LK.pc THEN next ELSE s

LinKernighan_Begin ==
    /\ fault = "none" /\ LK.pc = "entry"
    /\ LK' = BeginOf(LK)
    /\ Shadow' = InStep(Shadow, BeginOf(Shadow))
    /\ Queue' = EnqueueAll(<< >>, SeedCalls(LK))
    /\ Mark' = MarkAtBegin(LK')
    /\ last' = Call("LinKernighan", 0, 0, "begin")
    /\ UNCHANGED << Trajectory, Mem, live, fault, hist, Run >>

LinKernighan_Pop ==
    /\ fault = "none" /\ LK.pc = "pop"
    /\ LK' = PopOf(LK)
    /\ Shadow' = InStep(Shadow, PopOf(Shadow))
    /\ Queue' = IF Queue = << >> THEN << >> ELSE Tail(Queue)
    /\ Mark' = [ Mark EXCEPT !.SizeAtPop = Trajectory.TrajectorySize ]
    /\ last' = Call("LinKernighan", 0, 0, "pop")
    /\ UNCHANGED << Trajectory, Mem, live, fault, hist, Run >>

LinKernighan_Choose ==
    /\ fault = "none" /\ LK.pc = "choose"
    /\ LK' = ChooseOf(LK)
    /\ Shadow' = InStep(Shadow, ChooseOf(Shadow))
    /\ last' = Call("LinKernighan", 0, 0,
                    IF LK.X2 > 2 THEN "next" ELSE IF LK'.pc = "record" THEN "try" ELSE "skip")
    /\ Mark' = IF LK'.pc = "record" THEN MarkAtBranch(Mark, LK') ELSE Mark
    /\ UNCHANGED << Trajectory, Mem, live, fault, hist, Queue, Run >>

LinKernighan_Record ==
    /\ fault = "none" /\ LK.pc = "record"
    /\ LET d == RecordOf(LK, Recorder)
           recorded == d.r.td.TrajectorySize # Trajectory.TrajectorySize
       IN  /\ LK' = d.s
           /\ Trajectory' = d.r.td
           /\ Mem' = d.r.mem
           /\ fault' = d.r.fault
           /\ hist' = IF recorded
                      THEN [ hist EXCEPT !.stateAt = @ \cup {Trajectory.TrajectorySize},
                                         !.actionAt = @ \cup {Trajectory.TrajectorySize} ]
                      ELSE hist
           /\ last' = Call("LinKernighan", 0, 0, IF recorded THEN "recorded" ELSE "unrecorded")
    /\ Shadow' = InStep(Shadow, RecordOf(Shadow, DisabledRecorder).s)
    /\ UNCHANGED << live, Queue, Mark, Run >>

LinKernighan_Move(len) ==
    /\ fault = "none" /\ LK.pc = "move"
    /\ Reported(MoveOf(LK, len))
    /\ LK' = MoveOf(LK, len)
    /\ Shadow' = InStep(Shadow, MoveOf(Shadow, len))
    /\ last' = Call("LinKernighan", 0, 0, "move")
    /\ UNCHANGED << Trajectory, Mem, live, fault, hist, Queue, Mark, Run >>

LinKernighan_Commit ==
    /\ fault = "none" /\ LK.pc = "decide" /\ Improved(LK)
    /\ LK' = CommitOf(LK)
    /\ Shadow' = InStep(Shadow, IF Improved(Shadow) THEN CommitOf(Shadow) ELSE RollbackOf(Shadow))
    /\ Queue' = LET q == EnqueueAll(Queue, StoreTourCalls(LK.SwapStack))
                IN  IF LK'.pc = "pop" THEN Enqueue(q, LK.t1) ELSE q
    /\ Mark' = [ Mark EXCEPT !.CostWentUp = @ \/ LK.Gain < 0 ]
    /\ last' = Call("LinKernighan", 0, 0, "commit")
    /\ UNCHANGED << Trajectory, Mem, live, fault, hist, Run >>

LinKernighan_Rollback ==
    /\ fault = "none" /\ LK.pc = "decide" /\ ~Improved(LK)
    /\ LK' = RollbackOf(LK)
    /\ Shadow' = InStep(Shadow, IF Improved(Shadow) THEN CommitOf(Shadow) ELSE RollbackOf(Shadow))
    /\ last' = Call("LinKernighan", 0, 0, "rollback")
    /\ UNCHANGED << Trajectory, Mem, live, fault, hist, Queue, Mark, Run >>

LinKernighan_End ==
    /\ fault = "none" /\ LK.pc = "end"
    /\ LK' = EndOf(LK)
    /\ Shadow' = InStep(Shadow, EndOf(Shadow))
    /\ last' = Call("LinKernighan", LK.Cost, 0, "end")
    /\ UNCHANGED << Trajectory, Mem, live, fault, hist, Queue, Mark, Run >>

\* ------------------------------------------------------------------ specification of a trial
\* The recorder when the trial starts: never initialized, or initialized with
\* the given bounds and enabled.
RecorderOff == [ td |-> ZeroTrajectory, mem |-> EmptyMem, live |-> {} ]
RecorderOn(problem_dimension, max_steps, max_candidates_per_step) ==
    LET m == MallocAll(1, [ b \in BufNames |-> NULL ], {}, {})
    IN  [ td |-> EnableOf(WithPointers(InitScalars(ZeroTrajectory, problem_dimension,
                                                   max_steps, max_candidates_per_step),
                                       m.ptrs)),
          mem |-> FreshMem(problem_dimension, max_steps, max_candidates_per_step, 1),
          live |-> m.live ]
RecorderScenarios ==
    { RecorderOff, RecorderOn(Dimension, MaxSteps, MaxCand), RecorderOn(MaxDim, 1, 1) }

\* The trials checked: every combination of kicking, trial number and edge
\* classes from the odd-even tour, and from the identity tour when it is the
\* best tour, with hashing on, an empty table, no stale queue, no penalty and a
\* tour store that inverts physically; and from the odd-even tour on a first
\* trial without kicking every hash, queue and penalty scenario and the tour
\* store that inverts logically.
PlainHash == [ HashingUsed |-> 1, HTable |-> {} ]
PlainQueue == [ FirstActive |-> 0, LastActive |-> 0, Next |-> [ n \in Nodes |-> 0 ] ]
PlainEdges == [ BestSuc |-> [ n \in Nodes |-> 0 ], NearEdges |-> {}, FixedEdges |-> {} ]
PlainEntry == EntryState(OddEvenTour, PlainEdges, PlainHash, PlainQueue, 0, 1, {}, FALSE)
EntryStates ==
    { EntryState(OddEvenTour, e, PlainHash, PlainQueue, kick, trial, {}, FALSE) :
        e \in EdgeScenarios, kick \in {0, 1}, trial \in {1, 2} }
    \cup { EntryState(IdentityTour, e, PlainHash, PlainQueue, kick, trial, {}, FALSE) :
             e \in EdgeScenarios \ {PlainEdges}, kick \in {0, 1}, trial \in {1, 2} }
    \cup { EntryState(OddEvenTour, PlainEdges, h, PlainQueue, 0, 1, {}, FALSE) : h \in HashScenarios }
    \cup { EntryState(OddEvenTour, PlainEdges, PlainHash, q, 0, 1, {}, FALSE) : q \in QueueScenarios }
    \cup { EntryState(OddEvenTour, PlainEdges, PlainHash, PlainQueue, 0, 1, p, l) :
             p \in PenaltyScenarios, l \in BOOLEAN }
    \cup { EntryState(IdentityTour, PlainEdges, PlainHash, PlainQueue, 0, 1, { Edge(1, 2) }, l) :
             l \in BOOLEAN }

\* ------------------------------------------------------------------ candidate filtering events
\* Trajectory.c, td_record_candidate_filter_event: a placeholder that prints at
\* a high trace level and writes no field and no buffer.
td_record_candidate_filter_eventConsumingSlot(r, from_node, to_node, cost, accepted) ==
    [ r EXCEPT !.td.TrajectorySize = @ + 1 ]

td_record_candidate_filter_event(r, from_node, to_node, cost, accepted) == r

\* CreateCandidateSet.c, RecordCandidateFiltering: the early returns, then the
\* call of the placeholder; the encoding into the buffers is commented out.
RecordCandidateFilteringOf(r, From, To, Cost, Accepted) ==
    IF r.td.RecordingEnabled = 0 \/ r.td.Dimension <= 0
    THEN [ r |-> r, path |-> "off" ]
    ELSE IF r.td.TrajectorySize >= r.td.MaxTrajectorySize
    THEN [ r |-> r, path |-> "full" ]
    ELSE IF r.td.Dimension < 4
    THEN [ r |-> r, path |-> "narrow" ]
    ELSE [ r |-> td_record_candidate_filter_event(r, From, To, Cost, Accepted),
           path |-> "event" ]

\* Candidate edges are filtered while the candidate sets are built, outside a
\* trial.
RecordCandidateFiltering(From, To, Cost, Accepted) ==
    /\ fault = "none" /\ LK.pc \in {"entry", "done"}
    /\ LET d == RecordCandidateFilteringOf(Recorder, From, To, Cost, Accepted)
       IN  /\ Trajectory' = d.r.td
           /\ Mem' = d.r.mem
           /\ fault' = d.r.fault
           /\ last' = Call("RecordCandidateFiltering", 0, 0, d.path)
    /\ UNCHANGED << live, hist >>
    /\ UNCHANGED lkvars

\* The edges offered to the filter: one accepted, one rejected.
FilteredEdges == { << 1, 2, C(1, 2), 1 >>, << 1, 3, C(1, 3), 0 >> }

InitLK ==
    /\ LK \in EntryStates
    /\ \E rec \in RecorderScenarios :
          /\ rec # RecorderOn(Dimension, MaxSteps, MaxCand) => LK = PlainEntry
          /\ Trajectory = rec.td
          /\ Mem = rec.mem
          /\ live = rec.live
    /\ fault = "none"
    /\ last = [ op |-> "start", ret |-> 0, freed |-> 0, path |-> "", again |-> FALSE ]
    /\ hist = EmptyHist
    /\ Shadow = LK
    /\ Queue = << >>
    /\ Mark = NoMark
    /\ Run = NoRun

NextLK ==
    \/ LinKernighan_Begin
    \/ LinKernighan_Pop
    \/ LinKernighan_Choose
    \/ LinKernighan_Record
    \/ \E len \in {0} \cup Lengths : LinKernighan_Move(len)
    \/ LinKernighan_Commit
    \/ LinKernighan_Rollback
    \/ LinKernighan_End

SpecLK == InitLK /\ [][NextLK]_vars

\* A trial with the candidate filter's events before and after it.
NextFilter ==
    \/ NextLK
    \/ \E e \in FilteredEdges : RecordCandidateFiltering(e[1], e[2], e[3], e[4])

SpecFilter == InitLK /\ [][NextFilter]_vars

\* ------------------------------------------------------------------ claims about the trial
\* C12: every move the trial loop commits (cost and penalty booked, tour
\* stored) has Gain > 0 or PenaltyGain > 0; a move with Gain <= 0 and
\* PenaltyGain <= 0 is never committed and is always rolled back: the swap stack
\* is emptied by RestoreTour, cost and penalty stay, and the loop goes on to the
\* next t2.
C12_OnlyImprovingMovesCommitted ==
    [][ (LK.pc = "decide" /\ LK'.pc # "decide") =>
          /\ last'.path = "commit" => (LK.Gain > 0 \/ LK.PenaltyGain > 0)
          /\ (LK.Gain <= 0 /\ LK.PenaltyGain <= 0) =>
                /\ last'.path = "rollback"
                /\ LK'.pc = "choose" /\ LK'.X2 = LK.X2 + 1
                /\ LK'.SwapStack = << >>
                /\ LK'.Cost = LK.Cost /\ LK'.CurrentPenalty = LK.CurrentPenalty
                /\ LK'.OldSuc = LK.OldSuc /\ LK'.OldPred = LK.OldPred
      ]_vars

\* C12 witness: a move that raised the cost but lowered the penalty has been
\* committed.
C12_Witness ==
    /\ last.op = "LinKernighan" /\ last.path = "commit"
    /\ LK.Gain < 0 /\ LK.PenaltyGain > 0

\* Following the successor from any node for exactly N steps visits every node
\* once and returns to the node; Pred is the inverse of Suc.
SingleCycle(s) ==
    /\ \A n \in Nodes :
          LET w == Walk(s, n, Dimension)
          IN  /\ Range(w) = Nodes
              /\ SUC(s, w[Dimension]) = n
    /\ \A n \in Nodes : s.Suc[n] \in Nodes /\ s.Pred[s.Suc[n]] = n
    /\ Range(WalkSuc(s.Suc, s.FirstNode, Dimension)) = Nodes

\* C13: after every commit and after every rollback of a trial the tour is a
\* single N-cycle: following Succ from any node exactly N times returns to that
\* node and visits every node exactly once.
C13_SingleCycleAfterCommitAndRollback ==
    (last.op = "LinKernighan" /\ last.path \in {"commit", "rollback"}) => SingleCycle(LK)

\* C13 witness: an exchange that would have raised the cost was rolled back,
\* after an earlier commit had changed the tour the trial started from.
C13_Witness ==
    /\ last.op = "LinKernighan" /\ last.path = "rollback" /\ LK.Gain < 0
    /\ EdgesOf(Walk(LK, 1, Dimension)) \notin { EdgesOf(IdentityTour), EdgesOf(OddEvenTour) }

\* LKHSolver::calculate_tour_cost_internal (py_lkh_wrapper.cpp:1197-1209): the
\* sum of C(t, t->Suc) over the tour from FirstNode, divided by Precision.
RECURSIVE SumC(_, _, _)
SumC(s, t, k) ==
    IF k = 0 THEN 0
    ELSE C(t, s.Suc[t]) + (IF s.Suc[t] = s.FirstNode THEN 0 ELSE SumC(s, s.Suc[t], k - 1))

calculate_tour_cost_internal(s) == CDiv(SumC(s, s.FirstNode, Dimension), Precision)

\* C14: after any sequence of commits in a trial, the running cost (initial
\* cycle sum of edge cost minus both endpoint penalties, divided by Precision,
\* minus Gain / Precision at each commit) equals the cost recomputed by a full
\* traversal of the current tour (calculate_tour_cost).
C14_RunningCostEqualsRecomputedCost ==
    (last.op = "LinKernighan" /\ last.path = "commit")
        => LK.Cost = calculate_tour_cost_internal(LK)

\* C15: the optimizer's behaviour does not depend on recording: the trial with
\* recording enabled (any capacity, including a buffer that fills up
\* mid-trial) and the trial with recording disabled, started from the same
\* tour, candidate sets and queue and given the same moves, are in the same
\* state after every step: they pop the same origin nodes in the same order,
\* commit the same moves and return the same cost and final tour.
C15_RecordingDoesNotChangeTheSearch == LK = Shadow

C15_Witness ==
    /\ LK.pc = "done" /\ Shadow.pc = "done"
    /\ Trajectory.RecordingEnabled # 0
    /\ Trajectory.TrajectorySize >= Trajectory.MaxTrajectorySize
    /\ last.op = "LinKernighan" /\ last.path = "end"
    /\ LK.ret < SumD(EdgesOf(OddEvenTour))

\* C16: RecordDecision is side-effect-free with respect to the tour store and
\* the search: the step that calls it leaves every node's Pred/Suc links,
\* ranks, candidate sets, the active queue, the running cost, the penalty and
\* the hash unchanged; only the trajectory buffer may change.
C16_RecordDecisionLeavesSearchStateAlone ==
    [][ LK.pc = "record" =>
          /\ LK'.Suc = LK.Suc /\ LK'.Pred = LK.Pred /\ LK'.Reversed = LK.Reversed
          /\ LK'.Rank = LK.Rank /\ LK'.CandidateSet = LK.CandidateSet
          /\ LK'.Next = LK.Next /\ LK'.FirstActive = LK.FirstActive
          /\ LK'.LastActive = LK.LastActive
          /\ LK'.Cost = LK.Cost /\ LK'.CurrentPenalty = LK.CurrentPenalty
          /\ LK'.Hash = LK.Hash
          /\ LK' = [ LK EXCEPT !.pc = "move" ] ]_vars

C16_Witness ==
    /\ last.op = "LinKernighan" /\ last.path = "recorded"
    /\ LK.pc = "move" /\ Trajectory.TrajectorySize > 0
    /\ Len(LK.CandidateSet[LK.t1]) > 0

NoDuplicates(seq) == Cardinality(Range(seq)) = Len(seq)

\* C17: the active-node queue never holds the same node twice (activate
\* appends only a node that is not queued), and removeFirst returns the nodes
\* in the order of their activation or signals empty: the linked list of the
\* code is the FIFO queue fed with the same activations, across the initial
\* seeding and every re-activation of t1 after a commit.
C17_ActiveQueueIsFifoWithoutDuplicates ==
    [][ LK'.pc \notin {"off", "entry"} =>
          /\ ActiveList(LK') = Queue'
          /\ NoDuplicates(ActiveList(LK'))
          /\ \A n \in Nodes : (LK'.Next[n] # 0) <=> (n \in Range(Queue'))
          /\ LK.pc = "pop" =>
                /\ LK'.t1 = (IF Queue = << >> THEN 0 ELSE Head(Queue))
                /\ (Queue = << >>) <=> (LK'.pc = "end") ]_vars

C17_Witness ==
    /\ last.op = "LinKernighan" /\ last.path = "commit" /\ LK.pc = "pop"
    /\ Len(Queue) >= 2 /\ LK.t1 \in Range(Queue) /\ Queue[Len(Queue)] # LK.t1
    /\ ActiveList(LK) = Queue

\* What C18 calls "both of its current tour edges belong to the best-known tour".
BothEdgesInBestTour(s, n) == InBestTour(s, n, s.Pred[n]) /\ InBestTour(s, n, s.Suc[n])

\* C18 as stated: at the start of a trial every node is activated exactly once,
\* except that a node is left inactive exactly when both of its current tour
\* edges belong to the best-known tour, this is not the first trial, and kicks
\* are disabled (KickType = 0).
C18_Original ==
    (last.op = "LinKernighan" /\ last.path = "begin") =>
        /\ NoDuplicates(ActiveList(LK))
        /\ \A n \in Nodes :
              (n \notin Range(ActiveList(LK)))
                  <=> (BothEdgesInBestTour(LK, n) /\ LK.Trial # 1 /\ LK.KickType = 0)

\* C18 (amended): at the start of a trial every node is activated exactly once,
\* except that a node is left inactive exactly when both of its current tour
\* edges belong to the best-known tour, this is not the first trial, and kicks
\* are enabled (KickType # 0).
C18_InactiveOnlyWhenSettledAndKicked ==
    (last.op = "LinKernighan" /\ last.path = "begin") =>
        /\ NoDuplicates(ActiveList(LK))
        /\ \A n \in Nodes :
              (n \notin Range(ActiveList(LK)))
                  <=> (BothEdgesInBestTour(LK, n) /\ LK.Trial # 1 /\ LK.KickType # 0)

C18_Witness ==
    /\ last.op = "LinKernighan" /\ last.path = "begin"
    /\ LK.Trial # 1 /\ LK.KickType # 0
    /\ \E n \in Nodes : BothEdgesInBestTour(LK, n) /\ n \notin Range(ActiveList(LK))

\* C19 as stated: for a popped origin node t1 the engine tries t1's predecessor
\* first and t1's successor second as t2, and a t2 branch is skipped exactly
\* when the edge (t1, t2) is fixed, or both endpoints are near and it is not
\* the case that this is a first trial with kicking disabled.
C19_Original ==
    [][ (LK.pc = "choose" /\ LK.X2 <= 2) =>
          /\ LK'.t2 = (IF LK.X2 = 1 THEN PRED(LK, LK.t1) ELSE SUC(LK, LK.t1))
          /\ (last'.path = "skip")
                <=> \/ Fixed(LK, LK.t1, LK'.t2)
                    \/ /\ Near(LK, LK.t1, LK'.t2)
                       /\ ~(LK.Trial = 1 /\ LK.KickType = 0) ]_vars

\* C19 (amended): for a popped origin node t1 the engine tries t1's predecessor
\* first and t1's successor second as t2, and a t2 branch is skipped exactly
\* when the edge (t1, t2) is fixed, or both endpoints are near and this is a
\* first trial or kicking is disabled.
C19_PredThenSucSkippingFixedAndNear ==
    [][ (LK.pc = "choose" /\ LK.X2 <= 2) =>
          /\ LK'.t2 = (IF LK.X2 = 1 THEN PRED(LK, LK.t1) ELSE SUC(LK, LK.t1))
          /\ (last'.path = "skip")
                <=> \/ Fixed(LK, LK.t1, LK'.t2)
                    \/ /\ Near(LK, LK.t1, LK'.t2)
                       /\ (LK.Trial = 1 \/ LK.KickType = 0)
          /\ (last'.path = "skip") => (LK'.pc = "choose" /\ LK'.X2 = LK.X2 + 1)
          /\ (last'.path = "try") => (LK'.pc = "record" /\ LK'.X2 = LK.X2) ]_vars

C19_Witness ==
    /\ last.op = "LinKernighan" /\ last.path = "try"
    /\ LK.X2 = 2 /\ LK.t2 = SUC(LK, LK.t1)
    /\ Near(LK, LK.t1, LK.t2) /\ LK.Trial # 1 /\ LK.KickType # 0

\* C20: on a commit the running cost is reduced by the gain and the running
\* penalty by PenaltyGain, then the hash is queried: if the (hash, cost) pair of
\* the new tour is already in the table the whole trial ends immediately;
\* otherwise t1 is re-activated and the engine goes on to the next origin node
\* without trying t1's other t2 choice.
C20_CommitBooksGainThenQueriesHash ==
    [][ (LK.pc = "decide" /\ last'.path = "commit") =>
          /\ LK'.Cost * Precision = LK.Cost * Precision - LK.Gain
          /\ LK'.CurrentPenalty = LK.CurrentPenalty - LK.PenaltyGain
          /\ LK'.t1 = LK.t1
          /\ IF << LK'.Hash, LK'.Cost >> \in LK.HTable
             THEN LK'.pc = "end"
             ELSE /\ LK'.pc = "pop"
                  /\ LK.t1 \in Range(ActiveList(LK')) ]_vars

C20_Witness ==
    /\ last.op = "LinKernighan" /\ last.path = "commit" /\ LK.pc = "end"
    /\ << LK.Hash, LK.Cost >> \in LK.HTable
    /\ LK.FirstActive # 0 /\ LK.PenaltyGain = 0 /\ LK.Gain > 0

\* C21: on every committed improvement the resulting (hash, cost) pair is
\* inserted into the hash table, so the table holds the pair of every tour
\* committed so far (and a later commit reaching one of them is a repeat).
C21_CommittedPairIsInTable ==
    (last.op = "LinKernighan" /\ last.path = "commit" /\ LK.HashingUsed # 0)
        => << LK.Hash, LK.Cost >> \in LK.HTable

\* The tour order of s from node 1, as a set of edges.
TourEdges(s) == EdgesOf(Walk(s, 1, Dimension))

\* C22: when a t2 branch does not improve, the speculative link changes are
\* rolled back, so every node's Pred/Suc and the running cost and penalty equal
\* their values before the branch, and the other t2 choice is tried next; when
\* both branches are over without a commit t1 is not re-activated, and a node
\* enters the queue only through a later commit.
C22_RollbackRestoresBranchStart ==
    [][ /\ last'.path = "rollback" =>
              /\ \A n \in Nodes : SUC(LK', n) = Mark.Suc[n] /\ PRED(LK', n) = Mark.Pred[n]
              /\ LK'.Suc = Mark.RawSuc /\ LK'.Pred = Mark.RawPred
              /\ LK'.Reversed = Mark.Reversed /\ LK'.Hash = Mark.Hash
              /\ LK'.Cost = Mark.Cost /\ LK'.CurrentPenalty = Mark.CurrentPenalty
              /\ LK'.t1 = LK.t1 /\ LK'.pc = "choose" /\ LK'.X2 = LK.X2 + 1
        /\ last'.path = "next" =>
              /\ LK'.pc = "pop"
              /\ LK.t1 \notin Range(ActiveList(LK'))
              /\ LK'.Next[LK.t1] = 0
        /\ (LK.pc \notin {"off", "entry"} /\ last'.path # "commit") =>
              Range(ActiveList(LK')) \subseteq Range(ActiveList(LK)) ]_vars

C22_Witness ==
    /\ last.op = "LinKernighan" /\ last.path = "rollback"
    /\ LK.X2 = 3 /\ LK.Gain < 0
    /\ LK.Logical /\ LK.Reversed = Mark.Reversed
    /\ LK.t1 \notin Range(ActiveList(LK))

\* The links are in normal form: Pred is the inverse of Suc and the flag is off.
Normalized(s) == s.Reversed = 0 /\ \A n \in Nodes : s.Pred[s.Suc[n]] = n

\* How far the trial is from its end, as a natural number that every step makes
\* smaller: the penalty and cost still to lose first, then the nodes still
\* queued, then the steps left for the current t1.
CostSpan == 1 + CHOOSE c \in { PairOf(t)[2] : t \in Tours } : \A t \in Tours : PairOf(t)[2] <= c
StepsLeft(s) ==
    CASE s.pc = "done" -> 0
      [] s.pc = "end" -> 1
      [] s.pc = "pop" -> 2
      [] s.pc = "choose" -> IF s.X2 = 1 THEN 11 ELSE IF s.X2 = 2 THEN 7 ELSE 3
      [] s.pc = "record" -> IF s.X2 = 1 THEN 10 ELSE 6
      [] s.pc = "move" -> IF s.X2 = 1 THEN 9 ELSE 5
      [] s.pc = "decide" -> IF s.X2 = 1 THEN 8 ELSE 4
      [] OTHER -> 0
StepsPerNode == 1 + StepsLeft([ pc |-> "choose", X2 |-> 1 ])
Variant(s) ==
    LET toLose == IF s.pc = "entry" THEN (Cardinality(s.PenalizedEdges) + 1) * CostSpan
                  ELSE s.CurrentPenalty * CostSpan + s.Cost
    IN  (toLose * (Dimension + 1) + Len(ActiveList(s))) * StepsPerNode + StepsLeft(s)

\* The trial can take a step: it has not died and its position is one the loop
\* has a step for.
CanStep(s, f) ==
    /\ f = "none"
    /\ s.pc \in {"entry", "pop", "choose", "record", "move", "decide", "end"}

\* C23: every trial reaches the terminal state (each step brings it closer and
\* it never gets stuck before), either because the active queue has become
\* empty or because of a hash hit after a commit; on both paths the bookkeeping
\* is normalized, Reversed is 0 and the running cost is returned.
C23_TrialTerminatesNormalized ==
    [][ LK.pc # "off" =>
          /\ Variant(LK') < Variant(LK) /\ Variant(LK') >= 0
          /\ LK'.pc # "done" => CanStep(LK', fault')
          /\ LK'.pc = "done" =>
                (LK.pc = "end" /\ Normalized(LK') /\ LK'.ret = LK.Cost /\ last'.ret = LK.Cost)
          /\ (LK.pc # "end" /\ LK'.pc = "end") =>
                \/ last'.path = "pop" /\ Queue = << >>
                \/ last'.path = "commit" /\ << LK'.Hash, LK'.Cost >> \in LK.HTable ]_vars

C23_Witness ==
    /\ LK.pc = "done" /\ last.op = "LinKernighan" /\ last.path = "end"
    /\ Queue = << >> /\ LK.Logical /\ LK.ret < Mark.InitialCost

\* C24 as stated: the cost reported by one trial is less than or equal to the
\* cost of the initial tour, for every initial tour and every sequence of moves
\* committed during the trial.
C24_Original == LK.pc = "done" => LK.ret <= Mark.InitialCost

\* C24 (amended): the cost reported by one trial is less than or equal to the
\* cost of the initial tour, for every initial tour and every sequence of
\* committed moves none of which has a negative gain (a move committed for its
\* penalty gain alone may raise the cost).
C24_CostNotAboveInitialWithoutLossyCommit ==
    (LK.pc = "done" /\ ~Mark.CostWentUp) => LK.ret <= Mark.InitialCost

C24_Witness ==
    /\ LK.pc = "done" /\ ~Mark.CostWentUp
    /\ LK.ret < Mark.InitialCost /\ LK.CurrentPenalty < Mark.InitialPenalty

\* The tour snapshot of step i in the recorder's buffer.
SnapshotAt(td, mem, i) == SubSeq(mem.TourSnapshots, i * td.Dimension + 1, (i + 1) * td.Dimension)

\* C25: with recording enabled (for the dimension of the problem), the first
\* recorded step's tour snapshot equals the initial tour order, and every
\* recorded step's snapshot is the live tour at the moment of the decision:
\* exactly Dimension node ids, each node once, in traversal order of the current
\* tour, also after earlier commits have changed the tour or its orientation.
C25_SnapshotIsLiveTour ==
    [][ (last'.path = "recorded" /\ Trajectory.Dimension = Dimension) =>
          LET i == Trajectory.TrajectorySize
              snapshot == SnapshotAt(Trajectory', Mem', i)
          IN  /\ Len(snapshot) = Dimension
              /\ Range(snapshot) = Nodes
              /\ snapshot = Walk(LK, LK.FirstNode, Dimension)
              /\ (i = 0 /\ ~Mark.CostWentUp /\ LK.Cost = Mark.InitialCost
                        /\ LK.CurrentPenalty = Mark.InitialPenalty)
                    => snapshot = Mark.InitialOrder ]_vars

\* C28: duplicate detection never causes a correctness failure: when the trial
\* stops early on a hash hit (a colliding entry included), the tour is still a
\* valid N-cycle that contains the move just committed, and the cost returned
\* is the cost of exactly that tour.
C28_HashHitLeavesValidTour ==
    [][ (LK.pc = "end" /\ last.path = "commit") =>
          /\ SingleCycle(LK) /\ SingleCycle(LK')
          /\ TourEdges(LK') = TourEdges(LK)
          /\ Edge(LK.t1, LK.t2) \notin TourEdges(LK')
          /\ TourEdges(LK') # EdgesOf(WalkSuc(Mark.Suc, 1, Dimension))
          /\ LK'.pc = "done"
          /\ LK'.ret = SumD(TourEdges(LK'))
          /\ LK'.CurrentPenalty = Penalty(LK') ]_vars

C28_Witness ==
    /\ LK.pc = "done" /\ last.op = "LinKernighan" /\ last.path = "end"
    /\ LK.FirstActive # 0
    /\ << LK.Hash, LK.ret >> \in LK.HTable
    /\ PairOf(IdentityTour) \in LK.HTable /\ TourEdges(LK) # EdgesOf(IdentityTour)


\* ------------------------------------------------------------------ the run controller
\* One optimization run: candidate-set creation, the trial loop with its
\* wall-clock deadline, finalization, and the accessor of the best tour.
MaxTime == 1
MaxTrialsAsked == 2
LLONG_MAX == 2147483647     \* stands for the largest cost; only compared against

\* BestTour == nullptr: no array.
NoArray == << >>

\* The node whose candidate set is empty in a degenerate instance.
EmptyNode == Dimension
CandidateSets ==
    { [ n \in Nodes |-> CandidateSetOf(n) ],
      [ n \in Nodes |-> IF n = EmptyNode THEN << >> ELSE CandidateSetOf(n) ] }

\* !Na->CandidateSet || !Na->CandidateSet[0].To, for some node.
HasNoCandidates(cs) == \E n \in Nodes : cs[n] = << >>

\* The check at the end of candidate-set creation, under the MaxTrials
\* installed when it runs.
CandidateCheckFails(MaxTrials, cs) == MaxTrials > 0 /\ HasNoCandidates(cs)

\* A solver on which the problem has been read and no run has been made.
\* entry is the function that will run the trials; MaxTrials is the installed
\* global (from the parameter file or the instance), max_trials and time_limit
\* are the arguments of solve_with_trajectory.
ReadyRun(entry, MaxTrials, max_trials, time_limit, cs) ==
    [ pc |-> "idle", entry |-> entry, MaxTrials |-> MaxTrials, max_trials |-> max_trials,
      TimeLimit |-> time_limit, StartTime |-> 0, now |-> 0, Trial |-> 0,
      BetterCost |-> LLONG_MAX, BetterPenalty |-> LLONG_MAX, CurrentPenalty |-> LLONG_MAX,
      FirstNode |-> 1, Suc |-> LinksOf(IdentityTour, 0).Suc,
      BestSuc |-> [ n \in Nodes |-> 0 ],
      QueueLinks |-> PlainQueue,
      HashingUsed |-> 1, HTable |-> {},
      CandidateSet |-> cs, Dimension |-> Dimension, BestTour |-> NoArray,
      fired |-> FALSE, started |-> {}, ret |-> 0, got |-> [ threw |-> FALSE, tour |-> << >> ],
      again |-> FALSE, LeastPenalty |-> LLONG_MAX, LeastCost |-> LLONG_MAX ]

\* A solver that has been constructed and nothing else.
FreshRun ==
    [ ReadyRun("solve_with_trajectory", 0, MaxTrialsAsked, 1,
               [ n \in Nodes |-> CandidateSetOf(n) ]) EXCEPT
        !.pc = "fresh", !.Dimension = 0 ]

RunScenarios ==
    { ReadyRun("solve_and_record_trajectory", m, m, 1, cs) :
        m \in {0, MaxTrialsAsked}, cs \in CandidateSets }
    \cup { ReadyRun("solve_with_trajectory", m, MaxTrialsAsked, 1, cs) :
             m \in {0, 1}, cs \in CandidateSets }
    \cup { ReadyRun("solve_with_trajectory", 1, 0, 1, [ n \in Nodes |-> CandidateSetOf(n) ]) }
    \cup { FreshRun }

\* The tour left in BestTour by RecordBestTour: the best tour from FirstNode,
\* at indices 1..Dimension, and its first id again at Dimension + 1.
RecordBestTour(r) == WalkSuc(r.Suc, r.FirstNode, r.Dimension) \o << r.FirstNode >>

\* The end of a run: the tour is rebuilt from BestSuc (from Suc when no trial
\* recorded a better tour), the best tour is recorded, BetterCost is returned.
Finalized(r) ==
    LET best == IF r.MaxTrials = 0 \/ r.BestSuc[r.FirstNode] = 0 THEN r.Suc ELSE r.BestSuc
        r1 == [ r EXCEPT !.BestSuc = best, !.Suc = best,
                         !.Trial = IF @ > r.MaxTrials THEN r.MaxTrials ELSE @,
                         !.CurrentPenalty = r.BetterPenalty ]
    IN  [ r1 EXCEPT !.BestTour = RecordBestTour(r1), !.ret = r.BetterCost, !.pc = "returned" ]

\* The loop's deadline test.
DeadlineAlways(r) == r.now - r.StartTime >= r.TimeLimit

Deadline(r) == r.Trial > 1 /\ r.now - r.StartTime >= r.TimeLimit

\* The accessor: an exception, or the entries 1..Dimension + 1 of BestTour.
get_best_tour_short(BestTour, Dim) ==
    IF BestTour = NoArray \/ Dim <= 0 THEN [ threw |-> TRUE, tour |-> << >> ]
    ELSE [ threw |-> FALSE, tour |-> [ i \in 1..Dim |-> BestTour[i] ] ]

get_best_tour(BestTour, Dim) ==
    IF BestTour = NoArray \/ Dim <= 0 THEN [ threw |-> TRUE, tour |-> << >> ]
    ELSE [ threw |-> FALSE, tour |-> [ i \in 1..(Dim + 1) |-> BestTour[i] ] ]


\* The state LinKernighan is entered in for the trial the controller starts.
TrialEntry(r, tour) ==
    [ EntryState(tour,
                 [ BestSuc |-> r.BestSuc, NearEdges |-> {}, FixedEdges |-> {} ],
                 [ HashingUsed |-> r.HashingUsed, HTable |-> r.HTable ],
                 r.QueueLinks, 0, r.Trial, {}, FALSE)
        EXCEPT !.CandidateSet = r.CandidateSet ]

\* CurrentPenalty < BetterPenalty || (CurrentPenalty == BetterPenalty && Cost < BetterCost)
BetterThanBefore(r, s) ==
    \/ s.CurrentPenalty < r.BetterPenalty
    \/ s.CurrentPenalty = r.BetterPenalty /\ s.ret < r.BetterCost

\* The loop body after LinKernighan has returned.
AfterTrial(r, s) ==
    LET least == \/ s.CurrentPenalty < r.LeastPenalty
                 \/ s.CurrentPenalty = r.LeastPenalty /\ s.ret < r.LeastCost
        r1 == [ r EXCEPT !.Suc = s.Suc, !.CurrentPenalty = s.CurrentPenalty,
                         !.QueueLinks = [ FirstActive |-> s.FirstActive,
                                          LastActive |-> s.LastActive, Next |-> s.Next ],
                         !.LeastPenalty = IF least THEN s.CurrentPenalty ELSE @,
                         !.LeastCost = IF least THEN s.ret ELSE @,
                         !.Trial = @ + 1, !.pc = "head" ]
    IN  IF BetterThanBefore(r, s)
        THEN [ r1 EXCEPT !.BetterCost = s.ret, !.BetterPenalty = s.CurrentPenalty,
                         !.BestSuc = s.Suc,
                         !.HTable = IF r.HashingUsed # 0 THEN { << s.Hash, s.ret >> } ELSE @ ]
        ELSE r1

runvars == << Trajectory, Mem, live, fault, hist, LK, Shadow, Queue, Mark >>

\* ReadProblem and AllocateStructures on a fresh solver.
Run_ReadProblem ==
    /\ Run.pc = "fresh"
    /\ Run' = [ Run EXCEPT !.pc = "idle", !.Dimension = Dimension ]
    /\ last' = Call("ReadProblem", 0, 0, "")
    /\ UNCHANGED runvars

\* The node fields and the best-so-far values a call sets before its trials:
\* solve_and_record_trajectory assigns the globals BetterCost, BetterPenalty
\* and CurrentPenalty; solve_with_trajectory assigns instance_BetterCost and
\* instance_BetterPenalty after install_globals, which leaves the globals the
\* loop compares with at the values installed from the instance.
BestSoFarReset(r) ==
    IF r.entry = "solve_with_trajectory"
    THEN [ r EXCEPT !.BestSuc = [ n \in Nodes |-> 0 ], !.CurrentPenalty = LLONG_MAX ]
    ELSE [ r EXCEPT !.BestSuc = [ n \in Nodes |-> 0 ], !.CurrentPenalty = LLONG_MAX,
                    !.BetterCost = LLONG_MAX, !.BetterPenalty = LLONG_MAX ]

\* The run up to the trial loop: candidate-set creation under the MaxTrials
\* installed at that point, then (solve_with_trajectory only) MaxTrials,
\* TimeLimit and StartTime are set from the arguments and the clock.
Run_CreateCandidateSet ==
    /\ Run.pc = "idle"
    /\ IF CandidateCheckFails(Run.MaxTrials, Run.CandidateSet)
       THEN /\ Run' = [ Run EXCEPT !.pc = "failed", !.ret = LLONG_MAX ]
            /\ last' = Call(Run.entry, LLONG_MAX, 0, "no candidates")
       ELSE \E tour \in InitialTours :
            LET solver == Run.entry = "solve_with_trajectory"
                r1 == [ BestSoFarReset(Run) EXCEPT
                                   !.MaxTrials = IF solver THEN Run.max_trials ELSE @,
                                   !.StartTime = IF solver THEN Run.now ELSE @,
                                   !.Trial = 1, !.pc = "head" ]
            IN  /\ r1.MaxTrials = 0 \/ tour = IdentityTour
                /\ Run' = IF r1.MaxTrials > 0
                          THEN [ r1 EXCEPT !.HTable = IF r1.HashingUsed # 0 THEN {} ELSE @ ]
                          ELSE [ r1 EXCEPT !.Suc = LinksOf(tour, 0).Suc,
                                           !.FirstNode = tour[1],
                                           !.CurrentPenalty = 0, !.BetterPenalty = 0 ]
                /\ last' = Call(Run.entry, 0, 0, "candidates")
    /\ UNCHANGED runvars

\* The clock moves on; the run reads it at the head of the loop only.
Tick ==
    /\ Run.now < MaxTime
    /\ Run.pc = "head" \/ (Run.pc = "trial" /\ LK.pc = "end")
    /\ Run' = [ Run EXCEPT !.now = @ + 1 ]
    /\ UNCHANGED << runvars, last >>

\* Loop head: the trials are used up.
Run_Exit ==
    /\ Run.pc = "head" /\ Run.Trial > Run.MaxTrials
    /\ Run' = Finalized(Run)
    /\ last' = Call(Run.entry, Run.BetterCost, 0, "exit")
    /\ UNCHANGED runvars

\* Loop head: the deadline has passed.
Run_Break ==
    /\ Run.pc = "head" /\ Run.Trial <= Run.MaxTrials /\ Deadline(Run)
    /\ Run' = Finalized([ Run EXCEPT !.fired = TRUE ])
    /\ last' = Call(Run.entry, Run.BetterCost, 0, "break")
    /\ UNCHANGED runvars

\* Loop body up to the call of LinKernighan.
Run_BeginTrial(tour) ==
    /\ Run.pc = "head" /\ Run.Trial <= Run.MaxTrials /\ ~Deadline(Run)
    /\ Run' = [ Run EXCEPT !.pc = "trial", !.started = @ \cup {Run.Trial},
                           !.FirstNode = tour[1], !.Suc = LinksOf(tour, 0).Suc ]
    /\ LK' = TrialEntry(Run, tour)
    /\ Shadow' = LK'
    /\ Queue' = << >>
    /\ Mark' = NoMark
    /\ last' = Call(Run.entry, 0, 0, "trial")
    /\ UNCHANGED << Trajectory, Mem, live, fault, hist >>

\* Loop body after LinKernighan has returned.
Run_AfterTrial ==
    /\ Run.pc = "trial" /\ LK.pc = "done"
    /\ Run' = AfterTrial(Run, LK)
    /\ LK' = NoTrial
    /\ Shadow' = NoTrial
    /\ last' = Call(Run.entry, LK.ret, 0, IF BetterThanBefore(Run, LK) THEN "better" ELSE "same")
    /\ UNCHANGED << Trajectory, Mem, live, fault, hist, Queue, Mark >>

\* get_best_tour, called when no run is in progress.
Run_get_best_tour ==
    /\ Run.pc \in { "fresh", "idle", "failed", "returned" } /\ last.op # "get_best_tour"
    /\ LET tour == get_best_tour(Run.BestTour, Run.Dimension)
       IN  /\ Run' = [ Run EXCEPT !.got = tour ]
           /\ last' = Call("get_best_tour", 0, 0, IF tour.threw THEN "error" ELSE "tour")
    /\ UNCHANGED runvars

\* The moves the trials of a run find: none, or the shortest one (every length
\* is covered by the specification of the single trial).
ShortMoves == { 0 } \cup { len \in Lengths : \A other \in Lengths : len <= other }

\* The entry point is called once more after it has returned:
\* solve_and_record_trajectory reads the problem again, solve_with_trajectory
\* installs what uninstall_globals saved at the end of the first call.
Run_SolveAgain ==
    /\ Run.pc = "returned" /\ ~Run.again
    /\ LET r1 == [ Run EXCEPT !.pc = "idle", !.again = TRUE, !.Trial = 0, !.fired = FALSE,
                              !.started = {}, !.LeastPenalty = LLONG_MAX,
                              !.LeastCost = LLONG_MAX ]
       IN  Run' = IF Run.entry = "solve_with_trajectory" THEN r1
                  ELSE [ r1 EXCEPT !.FirstNode = 1, !.Suc = LinksOf(IdentityTour, 0).Suc ]
    /\ last' = Call(Run.entry, 0, 0, "again")
    /\ UNCHANGED runvars

InitRun ==
    /\ Run \in RunScenarios
    /\ Trajectory = RecorderOff.td     \* neither entry point touches the recorder
    /\ Mem = RecorderOff.mem
    /\ live = RecorderOff.live
    /\ fault = "none"
    /\ last = [ op |-> "start", ret |-> 0, freed |-> 0, path |-> "", again |-> FALSE ]
    /\ hist = EmptyHist
    /\ LK = NoTrial
    /\ Shadow = NoTrial
    /\ Queue = << >>
    /\ Mark = NoMark

NextRun ==
    \/ Run_ReadProblem
    \/ Run_CreateCandidateSet
    \/ Tick
    \/ Run_Exit
    \/ Run_Break
    \/ \E tour \in InitialTours : Run_BeginTrial(tour)
    \/ Run_AfterTrial
    \/ Run_get_best_tour
    \/ LinKernighan_Begin
    \/ LinKernighan_Pop
    \/ LinKernighan_Choose
    \/ LinKernighan_Record
    \/ \E len \in ShortMoves : LinKernighan_Move(len)
    \/ LinKernighan_Commit
    \/ LinKernighan_Rollback
    \/ LinKernighan_End

SpecRun == InitRun /\ [][NextRun]_vars

\* A run followed by a second call of the same entry point.
NextAgain ==
    \/ NextRun
    \/ Run_SolveAgain

SpecAgain == InitRun /\ [][NextAgain]_vars


\* ------------------------------------------------------------------ claims about the run
\* Trials were asked for: MAX_TRIALS of the parameter file for
\* solve_and_record_trajectory, the argument max_trials for solve_with_trajectory.
CandidatesRequired(r) == r.max_trials > 0

\* C26: if some node has an empty candidate set and candidates are required
\* (trials were asked for), the run fails during candidate-set creation: on no
\* entry point does a trial reach the point where an origin node t1 has been
\* popped for the move search.
C26_EmptyCandidateSetStopsTheRun ==
    (HasNoCandidates(Run.CandidateSet) /\ CandidatesRequired(Run))
        => ~(Run.pc = "trial" /\ LK.pc = "choose")

C30_DeadlineOnlyBetweenTrials ==
    [][ /\ (Run.pc = "trial" /\ LK.pc # "done") =>
              /\ Run'.pc = "trial" /\ Run'.Trial = Run.Trial /\ ~Run'.fired
              /\ LK' # LK => Variant(LK') < Variant(LK)
        /\ (Run'.pc = "trial" /\ LK'.pc # "done") => CanStep(LK', fault')
        /\ (Run.pc = "trial" /\ LK.pc = "done") =>
              (Run'.pc = "head" /\ Run'.Trial = Run.Trial + 1 /\ Run'.started = Run.started)
        /\ (Run.pc = "head" /\ Run.Trial = 1 /\ Run.MaxTrials >= 1 /\ Run'.now = Run.now) =>
              (Run'.pc = "trial" /\ Run'.started = {1})
        /\ (Run'.fired /\ ~Run.fired) =>
              (Run.pc = "head" /\ Run.Trial > 1 /\ Run.now - Run.StartTime >= Run.TimeLimit)
        /\ Run'.fired => (Run'.pc = "returned" /\ Run'.started = Run.started)
      ]_vars

C30_Witness ==
    /\ Run.pc = "returned" /\ Run.fired
    /\ Run.started = {1} /\ Run.MaxTrials > 1
    /\ Run.BetterCost # LLONG_MAX


\* ------------------------------------------------------------------ two solver instances
\* The recorder is the one process-wide Trajectory and its functions take no
\* lock (lkh_global_mutex guards the methods of LKHSolver only): while the run
\* of one solver instance is inside a trial, the thread that owns another
\* instance enables, disables or cleans up the recorder for its own run. The
\* trial reads the recorder in RecordDecision only, so the calls are placed
\* right before it.
OtherInstance(call) == LK.pc = "record" /\ call

InitShared ==
    /\ InitLK
    /\ LK = PlainEntry
    /\ Trajectory = RecorderOn(Dimension, MaxSteps, MaxCand).td

NextShared ==
    \/ NextLK
    \/ OtherInstance(TD_EnableRecording)
    \/ OtherInstance(TD_DisableRecording)
    \/ OtherInstance(TD_Cleanup)

SpecShared == InitShared /\ [][NextShared]_vars

\* C29: each run owns its recorder: while the trial of one run is in progress,
\* a step that is not this run's own (an enable, a disable or a cleanup made for
\* the run of another solver instance) changes neither the recorder's
\* descriptor (buffers, size, enabled flag) nor the contents of its buffers as
\* this run observes them.
C29_RunOwnsItsRecorder ==
    [][ (LK.pc \notin { "off", "done" } /\ last'.op # "LinKernighan")
            => UNCHANGED << Trajectory, Mem >> ]_vars


\* ------------------------------------------------------------------ claims about the recorded steps
\* A recorded (double) a / b equals the integer n.
RatioIs(r, n) == r[1] = n * r[2]

\* Positions p and q are next to each other on the cycle of length n.
Adjacent(p, q, n) == (p % n) + 1 = q \/ (q % n) + 1 = p

\* The step the move search has just recorded holds the decision of the branch
\* (t1, t2): origin, running cost, truncated candidate list, chosen node (a tour
\* neighbour of t1 in the snapshot when the recorder is sized for the problem).
RecordedDecision ==
    LET i == Trajectory.TrajectorySize
        w == Trajectory.MaxCandidatesPerStep
        n == Min(Len(LK.CandidateSet[LK.t1]), w)
        snapshot == SnapshotAt(Trajectory', Mem', i)
    IN  /\ Trajectory'.TrajectorySize = i + 1
        /\ At(Mem'.CurrentNodeAtStep, i) = LK.t1
        /\ At(Mem'.TourCostAtStep, i) = LK.Cost
        /\ At(Mem'.ActualNumCandidatesAtStep, i) = n
        /\ \A k \in 1..n :
              /\ At(Mem'.CandidateNodeIds, i * w + k - 1) = LK.CandidateSet[LK.t1][k].To
              /\ At(Mem'.CandidateCosts, i * w + k - 1)
                    = Ratio(LK.CandidateSet[LK.t1][k].Cost, Precision)
        /\ At(Mem'.ChosenNodeAtStep, i) = LK.t2
        /\ Trajectory.Dimension = Dimension =>
              \E p, q \in 1..Dimension :
                  snapshot[p] = LK.t1 /\ snapshot[q] = LK.t2 /\ Adjacent(p, q, Dimension)
        /\ LK.G0 = C(LK.t1, LK.t2)

\* C31 as stated: each recorded step holds origin t1, the running cost, the
\* first min(|CandidateSet(t1)|, max_candidates_per_step) candidates in catalog
\* order, chosen node t2 (a tour neighbour of t1 in the snapshot) and as gain
\* the undivided g0 = C(t1, t2).
C31_Original ==
    [][ last'.path = "recorded" =>
            /\ RecordedDecision
            /\ RatioIs(At(Mem'.ChosenNodeGainAtStep, Trajectory.TrajectorySize), LK.G0) ]_vars

\* C31: each step recorded by the move search holds the popped node t1 as
\* origin, the running cost as tour cost, the first
\* min(|CandidateSet(t1)|, max_candidates_per_step) candidates of t1 in catalog
\* order, the t2 of the branch as chosen node, which is a neighbour of t1 in the
\* recorded snapshot, and as gain g0 / Precision with g0 = C(t1, t2).
C31_RecordedStepHoldsTheDecision ==
    [][ last'.path = "recorded" =>
            /\ RecordedDecision
            /\ At(Mem'.ChosenNodeGainAtStep, Trajectory.TrajectorySize)
                  = Ratio(LK.G0, Precision) ]_vars

C31_Witness ==
    /\ last.op = "LinKernighan" /\ last.path = "recorded"
    /\ LK.pc = "move" /\ LK.G0 > 0 /\ Trajectory.Dimension = Dimension
    /\ At(Mem.ChosenNodeAtStep, Trajectory.TrajectorySize - 1) = LK.t2
    /\ At(Mem.ChosenNodeGainAtStep, Trajectory.TrajectorySize - 1) = Ratio(LK.G0, Precision)


\* Branches of this trial whose recording point has been passed.
BranchesRecordable == Mark.Evaluated - (IF LK.pc = "record" THEN 1 ELSE 0)

StepsOfTrial == Trajectory.TrajectorySize - Mark.SizeAtBegin

\* C32: while recording is enabled, every evaluated t2 branch adds exactly one
\* completed step (state and action half) before the deep search unless the
\* buffer is full, a skipped branch adds none, one popped origin adds at most
\* two steps, and the steps recorded in a trial number
\* min(evaluated branches, max_steps).
C32_OneStepPerEvaluatedBranch ==
    [][ /\ (Mark'.at # "none" /\ Trajectory'.RecordingEnabled # 0 /\ fault' = "none") =>
              /\ StepsOfTrial' = Min(BranchesRecordable',
                                     Trajectory'.MaxTrajectorySize - Mark'.SizeAtBegin)
              /\ Trajectory'.TrajectorySize - Mark'.SizeAtPop \in 0..2
              /\ hist'.stateAt = 0..(Trajectory'.TrajectorySize - 1)
              /\ hist'.actionAt = hist'.stateAt
        /\ (LK.pc = "record" /\ Trajectory.RecordingEnabled # 0 /\ fault' = "none"
                /\ Trajectory.TrajectorySize < Trajectory.MaxTrajectorySize) =>
              /\ Trajectory'.TrajectorySize = Trajectory.TrajectorySize + 1
              /\ LK'.pc = "move"
        /\ last'.path \in {"skip", "next", "pop", "move", "commit", "rollback"} =>
              UNCHANGED << Trajectory, Mem, hist >> ]_vars

\* Two branches of one origin recorded, a later evaluated branch found the
\* buffer full.
C32_Witness ==
    /\ LK.pc = "move" /\ Trajectory.RecordingEnabled # 0 /\ fault = "none"
    /\ Mark.Evaluated > Trajectory.MaxTrajectorySize
    /\ Trajectory.TrajectorySize = Trajectory.MaxTrajectorySize
    /\ Trajectory.TrajectorySize = 2


\* ------------------------------------------------------------------ claims about the recorder's switches
\* Cells of buffer b that belong to one step.
CellsPerStep(td, b) ==
    IF b = "TourSnapshots" THEN td.Dimension
    ELSE IF b \in {"CandidateNodeIds", "CandidateCosts"} THEN td.MaxCandidatesPerStep
    ELSE 1

\* The first n steps of every buffer are the same before and after the step.
StepsKept(n) ==
    \A b \in BufNames :
        SubSeq(Mem'[b], 1, n * CellsPerStep(Trajectory, b))
            = SubSeq(Mem[b], 1, n * CellsPerStep(Trajectory, b))

\* C34: TD_EnableRecording and TD_DisableRecording change only the enabled
\* flag; enabling an initialized buffer that was disabled with steps in it
\* keeps the size and the stored steps, and the next state recorded goes to
\* the next free index without touching the earlier steps.
C34_SwitchesChangeOnlyTheFlag ==
    [][ /\ last'.op \in {"TD_EnableRecording", "TD_DisableRecording"} =>
              /\ Trajectory' = [ Trajectory EXCEPT !.RecordingEnabled = Trajectory'.RecordingEnabled ]
              /\ UNCHANGED << Mem, live, hist, fault >>
        /\ last'.op = "TD_DisableRecording" => Trajectory'.RecordingEnabled = 0
        /\ (last'.op = "TD_EnableRecording" /\ ~NotProperlyInitialized(Trajectory)) =>
              Trajectory'.RecordingEnabled = 1
        /\ (last.op = "TD_EnableRecording" /\ last'.op = "TD_RecordState"
                /\ last'.path = "recorded") =>
              /\ hist'.stateAt = hist.stateAt \cup {Size}
              /\ StepsKept(Size) ]_vars

\* Recording was switched back on over a buffer that holds a step and has room.
C34_Witness ==
    /\ last.op = "TD_EnableRecording" /\ Enabled
    /\ Size > 0 /\ Size < Capacity /\ Size - 1 \in hist.actionAt

\* C35: a successful TD_Initialize leaves size 0 and recording disabled, and
\* dimension, capacity and candidate width are the bounds given, the ones the
\* buffers were sized with.
C35_InitializedEmptyAndDisabled ==
    [][ (last'.op = "TD_Initialize" /\ last'.ret = 0) =>
            /\ Trajectory'.TrajectorySize = 0
            /\ Trajectory'.RecordingEnabled = 0
            /\ << Trajectory'.Dimension, Trajectory'.MaxTrajectorySize,
                  Trajectory'.MaxCandidatesPerStep >> \in GoodArgs
            /\ Len(Mem'.CurrentNodeAtStep) = Trajectory'.MaxTrajectorySize
            /\ Len(Mem'.TourSnapshots)
                  = Trajectory'.MaxTrajectorySize * Trajectory'.Dimension
            /\ Len(Mem'.CandidateNodeIds)
                  = Trajectory'.MaxTrajectorySize * Trajectory'.MaxCandidatesPerStep ]_vars

\* An enabled recorder was initialized again, with the largest bounds.
C35_Witness ==
    /\ last.op = "TD_Initialize" /\ last.ret = 0
    /\ Size = 0 /\ ~Enabled /\ live # Pointers(Trajectory)
    /\ Trajectory.Dimension = MaxDim /\ Capacity = MaxSteps /\ Width = MaxCand


\* C36: a candidate-filtering event never consumes a trajectory slot: it leaves
\* the size, the other recorder fields, the buffers and the recorded halves
\* unchanged, whatever the recorder's state.
C36_FilterEventsConsumeNoSlot ==
    [][ last'.op = "RecordCandidateFiltering" =>
            UNCHANGED << Trajectory, Mem, hist, live, fault >> ]_vars

\* An event reached the placeholder while the buffer held a step and had room.
C36_Witness ==
    /\ last.op = "RecordCandidateFiltering" /\ last.path = "event"
    /\ Size > 0 /\ Size < Capacity


\* ------------------------------------------------------------------ finalizing the tour from BestSuc
\* The node links a finalization works on: k.Suc, k.Pred and k.BestSuc map a
\* node to a node, 0 is the null pointer; k.status tells how the call ended.
\* A loop that has not come back to FirstNode after Dimension rounds never will.
RECURSIVE LoopCopy(_, _, _)
LoopCopy(k, t, fuel) ==
    IF fuel = 0 THEN [ k EXCEPT !.status = "diverged" ]
    ELSE LET next == k.Suc[t]
             k1 == [ k EXCEPT !.BestSuc[t] = next ]
         IN  IF next = 0 THEN [ k1 EXCEPT !.status = "segv" ]
             ELSE IF next = k.FirstNode THEN k1
             ELSE LoopCopy(k1, next, fuel - 1)

\* do { if (!current->BestSuc) current->BestSuc = current->Suc;
\*      current = current->Suc; } while (current != FirstNode);
RECURSIVE LoopFill(_, _, _)
LoopFill(k, current, fuel) ==
    IF fuel = 0 THEN [ k EXCEPT !.status = "diverged" ]
    ELSE LET next == k.Suc[current]
             k1 == IF k.BestSuc[current] = 0 THEN [ k EXCEPT !.BestSuc[current] = next ] ELSE k
         IN  IF next = 0 THEN [ k1 EXCEPT !.status = "segv" ]
             ELSE IF next = k.FirstNode THEN k1
             ELSE LoopFill(k1, next, fuel - 1)

\* do (t->Suc = t->BestSuc)->Pred = t; while ((t = t->BestSuc) != FirstNode);
\* with fill, a null BestSuc is first replaced by Suc.
RECURSIVE LoopRelinkKeepingPred(_, _, _, _)
LoopRelinkKeepingPred(k, t, fill, fuel) ==
    IF fuel = 0 THEN [ k EXCEPT !.status = "diverged" ]
    ELSE LET best == IF k.BestSuc[t] = 0 /\ fill THEN k.Suc[t] ELSE k.BestSuc[t]
         IN  IF best = 0 THEN [ k EXCEPT !.status = "segv" ]
             ELSE LET k1 == [ k EXCEPT !.BestSuc[t] = best, !.Suc[t] = best ]
                  IN  IF best = k.FirstNode THEN k1
                      ELSE LoopRelinkKeepingPred(k1, best, fill, fuel - 1)

RECURSIVE LoopRelink(_, _, _, _)
LoopRelink(k, t, fill, fuel) ==
    IF fuel = 0 THEN [ k EXCEPT !.status = "diverged" ]
    ELSE LET best == IF k.BestSuc[t] = 0 /\ fill THEN k.Suc[t] ELSE k.BestSuc[t]
         IN  IF best = 0 THEN [ k EXCEPT !.status = "segv" ]
             ELSE LET k1 == [ k EXCEPT !.BestSuc[t] = best, !.Suc[t] = best, !.Pred[best] = t ]
                  IN  IF best = k.FirstNode THEN k1
                      ELSE LoopRelink(k1, best, fill, fuel - 1)

\* do Hash ^= Rand[t->Id] * Rand[t->Suc->Id]; while ((t = t->Suc) != FirstNode);
\* the entry point without class walks on with t->BestSuc.
RECURSIVE LoopHash(_, _, _, _)
LoopHash(k, t, byBest, fuel) ==
    IF fuel = 0 THEN [ k EXCEPT !.status = "diverged" ]
    ELSE IF k.Suc[t] = 0 THEN [ k EXCEPT !.status = "segv" ]
    ELSE LET k1 == [ k EXCEPT !.Hash = Xor(@, Rand(t) * Rand(k.Suc[t])) ]
             next == IF byBest THEN k.BestSuc[t] ELSE k.Suc[t]
         IN  IF next = 0 THEN [ k1 EXCEPT !.status = "segv" ]
             ELSE IF next = k.FirstNode THEN k1
             ELSE LoopHash(k1, next, byBest, fuel - 1)

Then(k, next) == IF k.status = "ok" THEN next ELSE k

Rehashed(k, byBest) ==
    IF k.HashingUsed # 0
    THEN LoopHash([ k EXCEPT !.Hash = 0 ], k.FirstNode, byBest, k.Dimension)
    ELSE k

TrialCapped(k) ==
    [ k EXCEPT !.Trial = IF @ > k.MaxTrials THEN k.MaxTrials ELSE @,
               !.CurrentPenalty = k.BetterPenalty ]

\* py_lkh_wrapper_base.cpp, the end of solve_and_record_trajectory.
FinalizeInSolve(k) ==
    LET k1 == IF k.Norm = 0 \/ k.MaxTrials = 0 \/ k.BestSuc[k.FirstNode] = 0
              THEN LoopCopy(k, k.FirstNode, k.Dimension)
              ELSE k
        k2 == Then(k1, LoopRelink(k1, k.FirstNode, FALSE, k.Dimension))
        k3 == Then(k2, Rehashed(k2, TRUE))
    IN  Then(k3, TrialCapped(k3))

finalize_tour_from_best_suc_internal(k) ==
    IF k.FirstNode = 0 THEN k
    ELSE LET k1 == IF k.Norm = 0 \/ k.MaxTrials = 0 \/ k.BestSuc[k.FirstNode] = 0
                   THEN LoopCopy(k, k.FirstNode, k.Dimension)
                   ELSE k
             k2 == Then(k1, LoopRelink(k1, k.FirstNode, FALSE, k.Dimension))
             k3 == Then(k2, Rehashed(k2, FALSE))
         IN  Then(k3, TrialCapped(k3))

py_finalize_tour_from_best_suc(k) ==
    IF k.FirstNode = 0 THEN k
    ELSE LET k1 == IF k.Norm = 0 \/ k.MaxTrials = 0 \/ k.BestSuc[k.FirstNode] = 0
                   THEN LoopFill(k, k.FirstNode, k.Dimension)
                   ELSE k
             k2 == Then(k1, LoopRelink(k1, k.FirstNode, TRUE, k.Dimension))
         IN  Then(k2, Rehashed(k2, FALSE))

\* The method of the class: the same statements on the instance's copies.
finalize_tour_from_best_suc(k) == py_finalize_tour_from_best_suc(k)

NoLinks == [ n \in Nodes |-> 0 ]

\* Two tours of half the nodes each: links that are no tour.
TwoLoops == [ n \in Nodes |-> IF n % 2 = 1 THEN (IF n + 1 > Dimension THEN n ELSE n + 1) ELSE n - 1 ]

\* The best tours a finalization may find: none, a tour, or (outside what the
\* callers provide) links set on one node only or closing before all nodes.
BestSucScenarios(first) ==
    { NoLinks, TwoLoops, [ NoLinks EXCEPT ![first] = LinksOf(OddEvenTour, 0).Suc[first] ] }
        \cup { LinksOf(t, r).Suc : t \in InitialTours, r \in {0, 1} }

LinkScenarios ==
    { [ pc |-> "links", Dimension |-> Dimension, FirstNode |-> first,
        Suc |-> LinksOf(t, 0).Suc, Pred |-> LinksOf(t, 0).Pred, BestSuc |-> best,
        Hash |-> HashOfEdges(EdgesOf(t)), HashingUsed |-> h, Norm |-> c[1], MaxTrials |-> c[2],
        Trial |-> 2, CurrentPenalty |-> 1, BetterPenalty |-> 0, status |-> "ok" ] :
      first \in Nodes, t \in InitialTours, best \in UNION { BestSucScenarios(f) : f \in Nodes },
      h \in {0, 1}, c \in { <<1, 1>>, <<0, 1>>, <<1, 0>> } }

Finalize(op, k) ==
    /\ Run.pc = "links" /\ Run.status = "ok"
    /\ Run' = k
    /\ last' = Call(op, 0, 0, k.status)
    /\ UNCHANGED << Trajectory, Mem, live, fault, hist, LK, Shadow, Queue, Mark >>

InitFinalize ==
    /\ Run \in LinkScenarios
    /\ Trajectory = RecorderOff.td
    /\ Mem = RecorderOff.mem
    /\ live = RecorderOff.live
    /\ fault = "none"
    /\ last = [ op |-> "start", ret |-> 0, freed |-> 0, path |-> "", again |-> FALSE ]
    /\ hist = EmptyHist
    /\ LK = NoTrial
    /\ Shadow = NoTrial
    /\ Queue = << >>
    /\ Mark = NoMark

NextFinalize ==
    \/ Finalize("solve_and_record_trajectory", FinalizeInSolve(Run))
    \/ Finalize("finalize_tour_from_best_suc_internal", finalize_tour_from_best_suc_internal(Run))
    \/ Finalize("py_finalize_tour_from_best_suc", py_finalize_tour_from_best_suc(Run))
    \/ Finalize("finalize_tour_from_best_suc", finalize_tour_from_best_suc(Run))

SpecFinalize == InitFinalize /\ [][NextFinalize]_vars

\* The links suc close after exactly Dimension nodes, all different.
ClosedTour(suc, first) ==
    /\ \A n \in Nodes : suc[n] \in Nodes
    /\ Range(WalkSuc(suc, first, Dimension)) = Nodes
    /\ WalkSuc(suc, first, Dimension + 1)[Dimension + 1] = first

RECURSIVE XorOver(_, _)
XorOver(ns, suc) ==
    IF ns = {} THEN 0
    ELSE LET n == CHOOSE x \in ns : TRUE
         IN  Xor(Rand(n) * Rand(suc[n]), XorOver(ns \ {n}, suc))

BestSucUnsetOrTour(k) == k.BestSuc = NoLinks \/ ClosedTour(k.BestSuc, k.FirstNode)

\* C37: finalizing the tour from the BestSuc chain terminates and leaves a
\* single cycle of all nodes: when BestSuc is unset on every node or is a
\* cycle through all nodes, afterwards Suc(n) = BestSuc(n) and Pred(Suc(n)) = n
\* for every node, following Suc from FirstNode visits every node once, and
\* when hashing is used the hash is the XOR over the tour edges (n, Suc(n)) of
\* Rand[n] * Rand[Suc(n)].
C37_FinalizeLeavesSingleCycle ==
    [][ (Run.pc = "links" /\ BestSucUnsetOrTour(Run)) =>
            /\ Run'.status = "ok"
            /\ \A n \in Nodes : Run'.Suc[n] = Run'.BestSuc[n] /\ Run'.Pred[Run'.Suc[n]] = n
            /\ ClosedTour(Run'.Suc, Run'.FirstNode)
            /\ Run'.HashingUsed # 0 => Run'.Hash = XorOver(Nodes, Run'.Suc) ]_vars

\* A best tour that differs from the current one was installed and hashed.
C37_Witness ==
    /\ Run.pc = "links" /\ last.op = "finalize_tour_from_best_suc_internal"
    /\ Run.status = "ok" /\ Run.HashingUsed = 1 /\ Run.FirstNode = 3
    /\ Run.Suc = LinksOf(OddEvenTour, 1).Suc /\ Run.Pred = LinksOf(OddEvenTour, 1).Pred
    /\ Run.Hash = XorOver(Nodes, Run.Suc) /\ Run.Hash # 0


\* ------------------------------------------------------------------ validating the solver state
\* for (i = 2; i <= Dimension; i++) { N = &NodeSet[i]; N->Pred = Prev;
\*     Prev->Suc = N; Prev = N; }  Prev->Suc = FirstNode; FirstNode->Pred = Prev;
RECURSIVE LinkInOrder(_, _, _)
LinkInOrder(v, Prev, i) ==
    IF i > v.Dimension
    THEN LET v1 == [ v EXCEPT !.Suc[Prev] = v.FirstNode ]
         IN  [ v1 EXCEPT !.Pred[v.FirstNode] = Prev ]
    ELSE LET v1 == [ v EXCEPT !.Pred[i] = Prev ]
         IN  LinkInOrder([ v1 EXCEPT !.Suc[Prev] = i ], i, i + 1)

Repairable(v, fix_issues) == fix_issues /\ v.NodeSet # 0 /\ v.Dimension > 0

\* py_lkh_wrapper_base.cpp, validate_solver_state.
validate_solver_state(v, fix_issues) ==
    LET is_valid == v.NodeSet # 0 /\ v.Dimension > 0
    IN  IF v.FirstNode = 0
        THEN IF Repairable(v, fix_issues)
             THEN [ LinkInOrder([ v EXCEPT !.FirstNode = 1 ], 1, 2) EXCEPT !.ret = TRUE ]
             ELSE [ v EXCEPT !.ret = FALSE ]
        ELSE IF v.Pred[v.FirstNode] = 0 \/ v.Suc[v.FirstNode] = 0
        THEN IF Repairable(v, fix_issues)
             THEN [ LinkInOrder(v, v.FirstNode, 2) EXCEPT !.ret = TRUE ]
             ELSE [ v EXCEPT !.ret = FALSE ]
        ELSE [ v EXCEPT !.ret = is_valid ]

\* py_lkh_wrapper.cpp, LKHSolver::validate_solver_state: the links of a
\* non-null FirstNode are not looked at.
LKHSolver_validate_solver_state(v, fix_issues) ==
    LET is_valid == v.NodeSet # 0 /\ v.Dimension > 0
    IN  IF v.FirstNode = 0
        THEN IF Repairable(v, fix_issues)
             THEN [ LinkInOrder([ v EXCEPT !.FirstNode = 1 ], 1, 2) EXCEPT !.ret = TRUE ]
             ELSE [ v EXCEPT !.ret = FALSE ]
        ELSE [ v EXCEPT !.ret = is_valid ]

\* The solver before a problem is read, with the nodes allocated and not yet
\* linked, and with a tour in the links; FirstNode unset or any node.
NodeScenarios ==
    { [ pc |-> "nodes", NodeSet |-> 0, Dimension |-> d, FirstNode |-> 0,
        Suc |-> NoLinks, Pred |-> NoLinks, ret |-> FALSE ] : d \in {0, Dimension} }
    \cup
    { [ pc |-> "nodes", NodeSet |-> 1, Dimension |-> d, FirstNode |-> first,
        Suc |-> l.Suc, Pred |-> l.Pred, ret |-> FALSE ] :
      d \in {0, Dimension}, first \in 0..Dimension,
      l \in { [ Suc |-> NoLinks, Pred |-> NoLinks ] }
               \cup { LinksOf(t, r) : t \in InitialTours, r \in {0, 1} } }

Validate(op, v, fix_issues) ==
    /\ Run.pc = "nodes"
    /\ Run' = v
    /\ last' = Call(op, IF v.ret THEN 1 ELSE 0, 0, IF fix_issues THEN "fix" ELSE "check")
    /\ UNCHANGED << Trajectory, Mem, live, fault, hist, LK, Shadow, Queue, Mark >>

InitValidate ==
    /\ Run \in NodeScenarios
    /\ Trajectory = RecorderOff.td
    /\ Mem = RecorderOff.mem
    /\ live = RecorderOff.live
    /\ fault = "none"
    /\ last = [ op |-> "start", ret |-> 0, freed |-> 0, path |-> "", again |-> FALSE ]
    /\ hist = EmptyHist
    /\ LK = NoTrial
    /\ Shadow = NoTrial
    /\ Queue = << >>
    /\ Mark = NoMark

NextValidate ==
    \/ \E fix_issues \in BOOLEAN :
          Validate("validate_solver_state", validate_solver_state(Run, fix_issues), fix_issues)
    \/ \E fix_issues \in BOOLEAN :
          Validate("LKHSolver::validate_solver_state",
                   LKHSolver_validate_solver_state(Run, fix_issues), fix_issues)

SpecValidate == InitValidate /\ [][NextValidate]_vars

\* C38: whenever validate_solver_state(fix_issues = true) returns true, NodeSet
\* is non-null, Dimension > 0, FirstNode is non-null and the links are a single
\* cycle through all Dimension nodes with Pred the inverse of Suc, from
\* whichever FirstNode the repair started; when it returns false no link has
\* been changed.
C38_ValidatedStateIsSingleCycle ==
    [][ (Run.pc = "nodes" /\ last'.path = "fix") =>
            /\ Run'.ret =>
                  /\ Run'.NodeSet # 0 /\ Run'.Dimension > 0 /\ Run'.FirstNode # 0
                  /\ ClosedTour(Run'.Suc, Run'.FirstNode)
                  /\ \A n \in Nodes : Run'.Pred[Run'.Suc[n]] = n
            /\ ~Run'.ret => (Run'.Suc = Run.Suc /\ Run'.Pred = Run.Pred) ]_vars


\* ------------------------------------------------------------------ claims about the best tour of a call
NoTourYet(penalty, cost) == penalty = LLONG_MAX /\ cost = LLONG_MAX

LexLess(p1, c1, p2, c2) == p1 < p2 \/ (p1 = p2 /\ c1 < c2)

\* C33: in every call the trial loop starts with best-so-far at "no tour yet",
\* so the first completed trial is taken as an improvement; afterwards
\* (BetterPenalty, BetterCost) is replaced only by a lexicographically smaller
\* pair, and the value returned is the least over the trials of that call;
\* this holds for a second call on the same solver as for the first, and for
\* the class-based loop as for the loop without class.
C33_BestOfTheCallIsReturned ==
    [][ /\ (Run.pc = "idle" /\ Run'.pc = "head" /\ Run'.MaxTrials > 0) =>
              NoTourYet(Run'.BetterPenalty, Run'.BetterCost)
        /\ (Run.pc = "trial" /\ Run'.pc = "head") =>
              /\ NoTourYet(Run.LeastPenalty, Run.LeastCost) => last'.path = "better"
              /\ << Run'.BetterPenalty, Run'.BetterCost >> # << Run.BetterPenalty, Run.BetterCost >>
                    => LexLess(Run'.BetterPenalty, Run'.BetterCost,
                               Run.BetterPenalty, Run.BetterCost)
              /\ Run'.BetterPenalty = Run'.LeastPenalty /\ Run'.BetterCost = Run'.LeastCost
        /\ (Run.pc = "head" /\ Run'.pc = "returned" /\ Run.started # {}) =>
              Run'.ret = Run.LeastCost ]_vars


\* ------------------------------------------------------------------ two solver instances
\* The state an LKHSolver saves (a part of it: every saved field is copied the
\* same way) and the LKH globals: the saved fields and KickType, which
\* LinKernighan reads and neither install_globals nor copy_globals_to_instance
\* mentions. The recorder is the global Trajectory.
Instances == { "A", "B" }

\* LKHSolver::LKHSolver.
NewSolver ==
    [ ParameterFileName |-> 0, MaxTrials |-> 0, Trial |-> 1, HashingUsed |-> 0, Hash |-> 0,
      CurrentPenalty |-> LLONG_MAX ]

install_globals(g, saved) ==
    [ g EXCEPT !.ParameterFileName = saved.ParameterFileName, !.MaxTrials = saved.MaxTrials,
               !.Trial = saved.Trial, !.HashingUsed = saved.HashingUsed, !.Hash = saved.Hash,
               !.CurrentPenalty = saved.CurrentPenalty ]

\* copy_globals_to_instance; a filename is taken over when the global differs.
uninstall_globals(g, saved) ==
    [ saved EXCEPT !.ParameterFileName = IF g.ParameterFileName # @ THEN g.ParameterFileName ELSE @,
                   !.MaxTrials = g.MaxTrials, !.Trial = g.Trial,
                   !.HashingUsed = g.HashingUsed, !.Hash = g.Hash,
                   !.CurrentPenalty = g.CurrentPenalty ]

\* Two parameter files: MAX_TRIALS and KICK_TYPE differ.
ParameterFiles ==
    << [ MaxTrials |-> 1, KickType |-> 0, HashingUsed |-> 1 ],
       [ MaxTrials |-> 2, KickType |-> 1, HashingUsed |-> 1 ] >>

\* ReadParameters() (LKH core): the globals take the values of the file.
ReadParameters(g) ==
    IF g.ParameterFileName = 0 THEN g
    ELSE LET file == ParameterFiles[g.ParameterFileName]
         IN  [ g EXCEPT !.MaxTrials = file.MaxTrials, !.KickType = file.KickType,
                        !.HashingUsed = file.HashingUsed ]

\* Each solver is given a parameter file of its own.
OwnFile(i) == IF i = "A" THEN 1 ELSE 2

TwoSolvers ==
    [ pc |-> "instances", on |-> "A", busy |-> FALSE,
      glob |-> [ ParameterFileName |-> 0, MaxTrials |-> 0, Trial |-> 0, HashingUsed |-> 0,
                 Hash |-> 0, CurrentPenalty |-> 0, KickType |-> 0 ],
      inst |-> [ i \in Instances |-> NewSolver ] ]

Idle == Run.pc = "instances" /\ ~Run.busy

Solver_set_parameter_file(i, filename) ==
    /\ Idle
    /\ Run' = [ Run EXCEPT !.on = i, !.inst[i].ParameterFileName = filename ]
    /\ last' = Call("set_parameter_file", 0, 0, i)
    /\ UNCHANGED runvars

Solver_read_parameters(i) ==
    /\ Idle /\ Run.inst[i].ParameterFileName # 0
    /\ LET g == ReadParameters(install_globals(Run.glob, Run.inst[i]))
       IN  Run' = [ Run EXCEPT !.on = i, !.glob = g, !.inst[i] = uninstall_globals(g, @) ]
    /\ last' = Call("read_parameters", 0, 0, i)
    /\ UNCHANGED runvars

\* InitializeStatistics() writes none of these globals.
Solver_initialize_statistics(i) ==
    /\ Idle
    /\ LET g == install_globals(Run.glob, Run.inst[i])
       IN  Run' = [ Run EXCEPT !.on = i, !.glob = g, !.inst[i] = uninstall_globals(g, @) ]
    /\ last' = Call("initialize_statistics", 0, 0, i)
    /\ UNCHANGED runvars

\* lin_kernighan up to the call of LinKernighan, which runs with the globals.
Solver_lin_kernighan(i) ==
    /\ Idle /\ LK.pc \in {"off", "done"}
    /\ LET g == install_globals(Run.glob, Run.inst[i])
       IN  /\ Run' = [ Run EXCEPT !.on = i, !.busy = TRUE, !.glob = g ]
           /\ LK' = EntryState(OddEvenTour, PlainEdges,
                               [ HashingUsed |-> g.HashingUsed, HTable |-> {} ],
                               PlainQueue, g.KickType, g.Trial, {}, FALSE)
    /\ Shadow' = LK'
    /\ Queue' = << >>
    /\ Mark' = NoMark
    /\ last' = Call("lin_kernighan", 0, 0, i)
    /\ UNCHANGED << Trajectory, Mem, live, fault, hist >>

\* lin_kernighan after LinKernighan has returned.
Solver_lin_kernighan_return ==
    /\ Run.pc = "instances" /\ Run.busy /\ LK.pc = "done"
    /\ LET g == [ Run.glob EXCEPT !.Hash = LK.Hash, !.CurrentPenalty = LK.CurrentPenalty ]
       IN  Run' = [ Run EXCEPT !.busy = FALSE, !.glob = g,
                               !.inst[Run.on] = uninstall_globals(g, @) ]
    /\ LK' = NoTrial
    /\ Shadow' = NoTrial
    /\ last' = Call("lin_kernighan", LK.ret, 0, Run.on)
    /\ UNCHANGED << Trajectory, Mem, live, fault, hist, Queue, Mark >>

InitInstances ==
    /\ Run = TwoSolvers
    /\ Trajectory = RecorderOn(Dimension, 1, 1).td
    /\ Mem = RecorderOn(Dimension, 1, 1).mem
    /\ live = RecorderOn(Dimension, 1, 1).live
    /\ fault = "none"
    /\ last = [ op |-> "start", ret |-> 0, freed |-> 0, path |-> "", again |-> FALSE ]
    /\ hist = EmptyHist
    /\ LK = NoTrial
    /\ Shadow = NoTrial
    /\ Queue = << >>
    /\ Mark = NoMark

NextInstances ==
    \/ \E i \in Instances : Solver_set_parameter_file(i, OwnFile(i))
    \/ \E i \in Instances : Solver_read_parameters(i)
    \/ \E i \in Instances : Solver_initialize_statistics(i)
    \/ \E i \in Instances : Solver_lin_kernighan(i)
    \/ Solver_lin_kernighan_return
    \/ LinKernighan_Begin
    \/ LinKernighan_Pop
    \/ LinKernighan_Choose
    \/ LinKernighan_Record
    \/ \E len \in ShortMoves : LinKernighan_Move(len)
    \/ LinKernighan_Commit
    \/ LinKernighan_Rollback
    \/ LinKernighan_End

SpecInstances == InitInstances /\ [][NextInstances]_vars

\* What an operation on instance i runs with: the globals once i is
\* installed, and the recorder.
ViewOf(r, td, i) ==
    [ globals |-> install_globals(r.glob, r.inst[i]),
      RecordingEnabled |-> td.RecordingEnabled, TrajectorySize |-> td.TrajectorySize ]

\* C40: two LKHSolver instances used alternately are isolated: install_globals
\* followed by uninstall_globals with no solver call in between leaves the
\* saved state unchanged, and no step of an operation on one instance changes
\* what the other instance observes and what an operation on the other then
\* runs with.
C40_InstancesAreIsolated ==
    [][ Run.pc = "instances" =>
            /\ last'.op = "initialize_statistics" => Run'.inst = Run.inst
            /\ \A i \in Instances \ {Run'.on} :
                  ViewOf(Run', Trajectory', i) = ViewOf(Run, Trajectory, i) ]_vars


\* ------------------------------------------------------------------ threads and the global mutex
\* Two threads call methods of one LKHSolver. Run.mutex is the owner of
\* lkh_global_mutex (0: free); a thread is at "acquire" before its lock_guard
\* is constructed, at "install" once it owns the mutex, at "inner" between
\* install_globals and uninstall_globals, at "release" before the lock_guard is
\* destroyed, and at "touch" inside a method that takes no lock.
Threads == { 1, 2 }

\* The public methods that construct a lock_guard on lkh_global_mutex.
Locks(m) == m \in { "lin_kernighan", "solve_with_trajectory" }

\* The calls a locking method makes between install and uninstall.
InnerCalls(m) ==
    IF m = "lin_kernighan" THEN << "LinKernighan" >>
    ELSE << "validate_solver_state", "create_candidate_set_internal",
            "validate_solver_state", "lin_kernighan_internal",
            "finalize_tour_from_best_suc_internal" >>

\* The public methods that read or write the node structures without a lock.
Unlocked == { "reset_node_tour_fields", "finalize_tour_from_best_suc", "validate_solver_state" }

IdleThread == [ m |-> "none", at |-> "idle", k |-> 0, threw |-> FALSE ]

ThreadsAtStart == [ pc |-> "threads", mutex |-> 0, th |-> [ t \in Threads |-> IdleThread ] ]

Thread_Call(t, m) ==
    /\ Run.pc = "threads" /\ Run.th[t].at = "idle"
    /\ Run' = [ Run EXCEPT !.th[t] = [ m |-> m, at |-> IF Locks(m) THEN "acquire" ELSE "touch",
                                       k |-> 0, threw |-> FALSE ] ]
    /\ last' = Call(m, 0, 0, "call")
    /\ UNCHANGED runvars

\* std::lock_guard<std::mutex> lock(lkh_global_mutex): blocks while another
\* thread owns the mutex.
Thread_Acquire(t) ==
    /\ Run.pc = "threads" /\ Run.th[t].at = "acquire" /\ Run.mutex = 0
    /\ Run' = [ Run EXCEPT !.mutex = t, !.th[t].at = "install" ]
    /\ last' = Call(Run.th[t].m, 0, 0, "locked")
    /\ UNCHANGED runvars

Thread_Install(t) ==
    /\ Run.pc = "threads" /\ Run.th[t].at = "install"
    /\ Run' = [ Run EXCEPT !.th[t].at = "inner", !.th[t].k = 1 ]
    /\ last' = Call(Run.th[t].m, 0, 0, "installed")
    /\ UNCHANGED runvars

\* One call between install and uninstall: it returns, or it throws and the
\* catch block is entered; a call of a locking method from here would block
\* on the mutex the thread owns.
Thread_Inner(t, throws) ==
    /\ Run.pc = "threads" /\ Run.th[t].at = "inner"
    /\ LET me == Run.th[t]
           call == InnerCalls(me.m)[me.k]
       IN  /\ Run' = IF Locks(call)
                     THEN [ Run EXCEPT !.th[t].at = "self-deadlock" ]
                     ELSE IF throws
                     THEN [ Run EXCEPT !.th[t].at = "uninstall", !.th[t].threw = TRUE ]
                     ELSE IF me.k < Len(InnerCalls(me.m))
                     THEN [ Run EXCEPT !.th[t].k = @ + 1 ]
                     ELSE [ Run EXCEPT !.th[t].at = "uninstall" ]
           /\ last' = Call(call, 0, 0, IF throws THEN "threw" ELSE "returned")
    /\ UNCHANGED runvars

Thread_Uninstall(t) ==
    /\ Run.pc = "threads" /\ Run.th[t].at = "uninstall"
    /\ Run' = [ Run EXCEPT !.th[t].at = "release" ]
    /\ last' = Call(Run.th[t].m, 0, 0, "uninstalled")
    /\ UNCHANGED runvars

\* return, or throw out of the catch block: the lock_guard is destroyed.
Thread_Release(t) ==
    /\ Run.pc = "threads" /\ Run.th[t].at = "release"
    /\ Run' = [ Run EXCEPT !.mutex = 0, !.th[t] = IdleThread ]
    /\ last' = Call(Run.th[t].m, 0, 0, IF Run.th[t].threw THEN "threw" ELSE "returned")
    /\ UNCHANGED runvars

Thread_Done(t) ==
    /\ Run.pc = "threads" /\ Run.th[t].at = "touch"
    /\ Run' = [ Run EXCEPT !.th[t] = IdleThread ]
    /\ last' = Call(Run.th[t].m, 0, 0, "returned")
    /\ UNCHANGED runvars

InitThreads ==
    /\ Run = ThreadsAtStart
    /\ Trajectory = RecorderOff.td
    /\ Mem = RecorderOff.mem
    /\ live = RecorderOff.live
    /\ fault = "none"
    /\ last = [ op |-> "start", ret |-> 0, freed |-> 0, path |-> "", again |-> FALSE ]
    /\ hist = EmptyHist
    /\ LK = NoTrial
    /\ Shadow = NoTrial
    /\ Queue = << >>
    /\ Mark = NoMark

NextThreads ==
    \/ \E t \in Threads, m \in { "lin_kernighan", "solve_with_trajectory" } \cup Unlocked :
          Thread_Call(t, m)
    \/ \E t \in Threads : Thread_Acquire(t)
    \/ \E t \in Threads : Thread_Install(t)
    \/ \E t \in Threads, throws \in BOOLEAN : Thread_Inner(t, throws)
    \/ \E t \in Threads : Thread_Uninstall(t)
    \/ \E t \in Threads : Thread_Release(t)
    \/ \E t \in Threads : Thread_Done(t)

SpecThreads == InitThreads /\ [][NextThreads]_vars

\* The thread is reading or writing the LKH globals or the node structures.
Touching(t) == Run.th[t].at \in { "inner", "uninstall", "touch" }

\* C39: at most one thread at a time reads or writes the LKH globals and the
\* node structures: a thread that touches them owns lkh_global_mutex from
\* before install to after uninstall, the mutex is free again when the method
\* has returned or thrown, and solve_with_trajectory never waits for the mutex
\* it owns.
C39_OneThreadTouchesTheGlobals ==
    Run.pc = "threads" =>
        /\ \A t, u \in Threads : (Touching(t) /\ Touching(u)) => t = u
        /\ \A t \in Threads : Touching(t) => Run.mutex = t
        /\ \A t \in Threads : Run.th[t].at \in { "idle", "acquire" } => Run.mutex # t
        /\ \A t \in Threads : Run.th[t].at # "self-deadlock"

====
